---- MODULE Spec2Model ----
(***************************************************************************)
(* Off-chain execution channel (dubhe-channel).                            *)
(*                                                                         *)
(* Part 1: OffchainExecutionManager                                        *)
(* (src/crates/node/src/offchain_execution.rs): concurrent execute_offchain *)
(* calls over the shared locked_objects and execution_sessions maps.       *)
(* Every action is one stretch of a call between two points where the      *)
(* async code can be interleaved with another call: an .await on one of    *)
(* the two tokio RwLocks or on an adapter / VM call.                       *)
(***************************************************************************)
EXTENDS Naturals, Integers, Sequences, FiniteSets, TLC

\* ------------------------------------------------------------------ bounds
NumTasks == 2
NumObjects == 2
NumSessionIds == 2
MaxModified == 2
MaxVmCalls == 5
MaxBatch == 3
NumAddrs == 4
MaxAccesses == 1

Tasks == 1..NumTasks
Objects == 1..NumObjects
SessionIds == 1..NumSessionIds

\* request.package_id: one package is enough for the manager's control flow
Packages == {"0x2"}

\* -------------------------------------------------------------- data model
NoTask == 0

\* SessionStatus (Failed carries its reason)
Status(tag, reason) == [tag |-> tag, reason |-> reason]
ObjectsLocked == Status("ObjectsLocked", "")
StateSync == Status("StateSync", "")
Executing == Status("Executing", "")
Completed == Status("Completed", "")
Failed(reason) == Status("Failed", reason)

\* position of a status tag in Initializing -> ObjectsLocked -> StateSync ->
\* Executing -> (Completed | Failed)
StatusRank(tag) ==
  CASE tag = "Initializing" -> 0
    [] tag = "ObjectsLocked" -> 1
    [] tag = "StateSync" -> 2
    [] tag = "Executing" -> 3
    [] tag = "Completed" -> 4
    [] tag = "Failed" -> 4

\* sequences over Objects without repetition: request.shared_objects
ObjectLists ==
  {s \in UNION {[1..n -> Objects] : n \in 0..NumObjects} :
     \A i, j \in 1..Len(s) : i # j => s[i] # s[j]}

\* ExecutionRequest (function_name, arguments, gas_budget only feed the VM input)
Requests ==
  [session_id : SessionIds, package_id : Packages, shared_objects : ObjectLists]

NoRequest == [session_id |-> 0, package_id |-> "", shared_objects |-> << >>]

\* LockedObject
LockedObject(obj) ==
  [object_id |-> obj, version |-> 1, lock_hash |-> <<"lock", obj, "hash">>]

\* Result<OffchainExecutionResult>
NoResult == [kind |-> "None", session_id |-> 0, success |-> FALSE, error |-> ""]
OkResult(sid, success, error) ==
  [kind |-> "Ok", session_id |-> sid, success |-> success, error |-> error]
ErrResult(reason) ==
  [kind |-> "Err", session_id |-> 0, success |-> FALSE, error |-> reason]

\* the step (1..6) a call is in at each position
StepOf(p) ==
  CASE p = "lock" -> 1
    [] p = "create" -> 2
    [] p \in {"sync_status", "sync_obj", "sync_load"} -> 3
    [] p \in {"exec_status", "exec_begin", "exec_run"} -> 4
    [] p \in {"sync_out", "sync_tx"} -> 5
    [] p = "unlock" -> 6
    [] OTHER -> 0

\* ExecutionResult of a VM run, as far as the manager reads it
NoExec == [success |-> FALSE, error |-> ""]

\* the set of elements of a sequence
Range(s) == {s[i] : i \in 1..Len(s)}

\* the concatenation of a sequence of sequences
RECURSIVE Concat(_)
Concat(ss) == IF ss = << >> THEN << >> ELSE Head(ss) \o Concat(Tail(ss))

\* ------------------------------------------- CompleteCkbVmInstance: data
\* u64 values are four 16-bit limbs, least significant first, so that
\* wrapping_add and wrapping_sub keep the register's width of 64 bits
Limb == 65536
Zero64 == <<0, 0, 0, 0>>
\* n as u64, for 0 <= n < 2^31
W64(n) == <<n % Limb, n \div Limb, 0, 0>>
\* `imm as u64` of a 12-bit signed immediate: sign extension to 64 bits
SignExtend(imm) ==
  IF imm >= 0 THEN W64(imm)
  ELSE <<Limb + imm, Limb - 1, Limb - 1, Limb - 1>>

\* u64::wrapping_add: the carry out of the top limb is dropped
WrappingAdd(a, b) ==
  LET s1 == a[1] + b[1]
      s2 == a[2] + b[2] + (s1 \div Limb)
      s3 == a[3] + b[3] + (s2 \div Limb)
      s4 == a[4] + b[4] + (s3 \div Limb)
  IN <<s1 % Limb, s2 % Limb, s3 % Limb, s4 % Limb>>

\* u64::wrapping_sub: a + (2^64 - 1 - b) + 1 modulo 2^64
WrappingSub(a, b) ==
  LET nb == <<Limb - 1 - b[1], Limb - 1 - b[2], Limb - 1 - b[3], Limb - 1 - b[4]>>
  IN WrappingAdd(WrappingAdd(a, nb), W64(1))

Registers == 0..31

\* ExecutionLimits::default()
DefaultLimits ==
  [max_memory |-> 64 * 1024 * 1024, max_cycles |-> 1000000,
   max_stack |-> 1 * 1024 * 1024, timeout_ms |-> 30000]

\* CompleteCkbVmInstance::new()
NewVm ==
  [limits |-> DefaultLimits, code_loaded |-> FALSE, code_cache |-> << >>,
   memory_size |-> 0, cycle_count |-> 0, registers |-> [r \in Registers |-> Zero64]]

\* init_registers: all zero, then sp = 0x7FFF_FFF0 and gp = 0x1000_0000
StackTop == 2147483632
GlobalData == 268435456
InitRegisters ==
  [r \in Registers |->
     IF r = 2 THEN W64(StackTop) ELSE IF r = 3 THEN W64(GlobalData) ELSE Zero64]

VmOk(m) == [kind |-> "Ok", err |-> "", stop |-> FALSE, vm |-> m]
VmErr(e, m) == [kind |-> "Err", err |-> e, stop |-> FALSE, vm |-> m]

\* fetch_instruction: the four bytes at pc, in the order of the code
\* (u32::from_le_bytes: the first byte holds bits 0..7)
FetchInstruction(m, pcv) ==
  IF pcv + 4 > Len(m.code_cache)
    THEN [kind |-> "Err", err |-> "ExecutionFailed: PC out of bounds", word |-> << >>]
    ELSE [kind |-> "Ok", err |-> "", word |-> SubSeq(m.code_cache, pcv + 1, pcv + 4)]

\* decode_instruction, on the little-endian bytes w of the instruction word
DecodeInstruction(w) ==
  LET opcode == w[1] % 128
      rd == (w[1] \div 128) + 2 * (w[2] % 16)
      funct3 == (w[2] \div 16) % 8
      rs1 == (w[2] \div 128) + 2 * (w[3] % 16)
      rs2 == (w[3] \div 16) + 16 * (w[4] % 2)
      funct7 == w[4] \div 2
      imm12 == (w[3] \div 16) + 16 * w[4]
      imm == IF imm12 >= 2048 THEN imm12 - 4096 ELSE imm12
      ins(k, e) == [kind |-> k, err |-> e, opcode |-> opcode, rd |-> rd,
                    funct3 |-> funct3, rs1 |-> rs1, rs2 |-> rs2,
                    funct7 |-> funct7, imm |-> imm]
  IN CASE opcode = 19 -> ins("IType", "")
       [] opcode = 51 -> ins("RType", "")
       [] opcode = 115 -> ins("System", "")
       [] OTHER -> ins("Err", "ExecutionFailed: Unsupported opcode")

\* the write of a register: x0 is never written
SetReg(m, rd, v) ==
  IF rd # 0 THEN [m EXCEPT !.registers[rd] = v] ELSE m

\* execute_instruction, the match: ADDI, ADD, SUB, EBREAK (stop); anything
\* else is skipped
ApplyInstruction(m, i) ==
  IF i.kind = "IType" /\ i.funct3 = 0
    THEN VmOk(SetReg(m, i.rd, WrappingAdd(m.registers[i.rs1], SignExtend(i.imm))))
  ELSE IF i.kind = "RType" /\ i.funct3 = 0 /\ i.funct7 = 0
    THEN VmOk(SetReg(m, i.rd, WrappingAdd(m.registers[i.rs1], m.registers[i.rs2])))
  ELSE IF i.kind = "RType" /\ i.funct3 = 0 /\ i.funct7 = 32
    THEN VmOk(SetReg(m, i.rd, WrappingSub(m.registers[i.rs1], m.registers[i.rs2])))
  ELSE IF i.kind = "System" /\ i.funct3 = 0
    THEN [VmOk(m) EXCEPT !.stop = TRUE]
  ELSE VmOk(m)

\* execute_instruction without the check of the cycle limit
ExecuteInstructionNoLimit(m0, i) ==
  ApplyInstruction([m0 EXCEPT !.cycle_count = @ + 1], i)

\* execute_instruction: counts the cycle, checks the limit, then the match
ExecuteInstruction(m0, i) ==
  LET m == [m0 EXCEPT !.cycle_count = @ + 1]
  IN IF m.cycle_count > m.limits.max_cycles
       THEN VmErr("ResourceLimitExceeded: Max cycles exceeded", m)
       ELSE ApplyInstruction(m, i)

\* setup_memory: a0 = input length, a1 = 0x2000_0000, then the memory check
InputAddress == 536870912
BaseMemory == 4096
SetupMemory(m0, input) ==
  LET m == [m0 EXCEPT !.registers[10] = W64(Len(input)),
                      !.registers[11] = W64(InputAddress),
                      !.memory_size = Len(input) + BaseMemory]
  IN IF m.memory_size > m.limits.max_memory
       THEN VmErr("ResourceLimitExceeded: Memory limit exceeded", m)
       ELSE VmOk(m)

\* the loop of execute, from program counter pcv
RECURSIVE ExecuteLoop(_, _)
ExecuteLoop(m, pcv) ==
  LET f == FetchInstruction(m, pcv)
      d == DecodeInstruction(f.word)
      e == ExecuteInstruction(m, d)
  IN IF f.kind = "Err" THEN VmErr(f.err, m)
     ELSE IF d.kind = "Err" THEN VmErr(d.err, m)
     ELSE IF e.kind = "Err" THEN e
     ELSE IF e.stop THEN e
     ELSE IF pcv + 4 >= Len(e.vm.code_cache) THEN VmOk(e.vm)
     ELSE IF e.vm.cycle_count > e.vm.limits.max_cycles
       THEN VmErr("ResourceLimitExceeded: Execution timeout", e.vm)
     ELSE ExecuteLoop(e.vm, pcv + 4)

NoVmResult ==
  [success |-> FALSE, output |-> << >>, gas_used |-> 0, cycles_used |-> 0,
   error |-> << >>]

\* u64::to_le_bytes
ToLeBytes(w) ==
  <<w[1] % 256, w[1] \div 256, w[2] % 256, w[2] \div 256,
    w[3] % 256, w[3] \div 256, w[4] % 256, w[4] \div 256>>

\* u64::from_le_bytes of the eight bytes of b from position k
FromLeBytes(b, k) ==
  <<b[k] + 256 * b[k + 1], b[k + 2] + 256 * b[k + 3],
    b[k + 4] + 256 * b[k + 5], b[k + 6] + 256 * b[k + 7]>>

\* extract_result that reports success whatever a0 holds
ExtractResultAlwaysOk(m) ==
  [success |-> TRUE, output |-> ToLeBytes(m.registers[10]),
   gas_used |-> m.cycle_count, cycles_used |-> m.cycle_count, error |-> << >>]

\* extract_result: success is a0 = 0; the output is a0's eight bytes
ExtractResult(m) ==
  LET return_value == m.registers[10]
      success == return_value = Zero64
  IN [success |-> success,
      output |-> IF success THEN ToLeBytes(return_value) ELSE << >>,
      gas_used |-> m.cycle_count, cycles_used |-> m.cycle_count,
      error |-> IF success THEN << >> ELSE <<"Non-zero exit code", return_value>>]

\* CompleteCkbVmInstance::load_code
CompleteLoadCode(m, code) ==
  IF code = << >> THEN VmErr("CodeLoadingFailed: Empty code", m)
  ELSE IF Len(code) % 4 # 0
    THEN VmErr("CodeLoadingFailed: Code must be 4-byte aligned", m)
  ELSE VmOk([m EXCEPT !.code_cache = code, !.code_loaded = TRUE,
                      !.registers = InitRegisters, !.cycle_count = 0])

\* CompleteCkbVmInstance::execute
CompleteExecute(m, input) ==
  IF ~m.code_loaded THEN VmErr("ExecutionFailed: No code loaded", m)
  ELSE LET s == SetupMemory(m, input)
       IN IF s.kind = "Err" THEN s ELSE ExecuteLoop(s.vm, 0)

\* bincode of VmState: the 32 registers, cycle_count and memory_size as
\* eight little-endian bytes each, code_loaded as one byte
SnapshotLen == 32 * 8 + 8 + 8 + 1
Serialize(m) ==
  Concat([r \in 1..32 |-> ToLeBytes(m.registers[r - 1])])
    \o ToLeBytes(W64(m.cycle_count)) \o ToLeBytes(W64(m.memory_size))
    \o <<IF m.code_loaded THEN 1 ELSE 0>>

\* the u64 w as a number, for w < 2^31
AsNat(w) == w[1] + Limb * w[2]

\* CompleteCkbVmInstance::snapshot
CompleteSnapshot(m) == [data |-> Serialize(m), vm_type |-> "CkbVM"]
NoSnapshot == [data |-> << >>, vm_type |-> ""]

\* restore that leaves cycle_count as it is
CompleteRestoreKeepCycles(m, snapshot) ==
  IF snapshot.vm_type # "CkbVM" THEN VmErr("SnapshotFailed: VM type mismatch", m)
  ELSE IF Len(snapshot.data) < SnapshotLen \/ snapshot.data[SnapshotLen] > 1
    THEN VmErr("bincode", m)
  ELSE VmOk([m EXCEPT
         !.registers = [r \in Registers |-> FromLeBytes(snapshot.data, 8 * r + 1)],
         !.memory_size = AsNat(FromLeBytes(snapshot.data, 32 * 8 + 8 + 1)),
         !.code_loaded = snapshot.data[SnapshotLen] = 1])

\* CompleteCkbVmInstance::restore: the type check, bincode::deserialize
\* (an Err on data that ends early or on a bool byte above 1), then the
\* four fields; code_cache and limits are not part of a snapshot
CompleteRestore(m, snapshot) ==
  IF snapshot.vm_type # "CkbVM" THEN VmErr("SnapshotFailed: VM type mismatch", m)
  ELSE IF Len(snapshot.data) < SnapshotLen \/ snapshot.data[SnapshotLen] > 1
    THEN VmErr("bincode", m)
  ELSE VmOk([m EXCEPT
         !.registers = [r \in Registers |-> FromLeBytes(snapshot.data, 8 * r + 1)],
         !.cycle_count = AsNat(FromLeBytes(snapshot.data, 32 * 8 + 1)),
         !.memory_size = AsNat(FromLeBytes(snapshot.data, 32 * 8 + 8 + 1)),
         !.code_loaded = snapshot.data[SnapshotLen] = 1])

\* snapshots of other makers: CkbVmInstance::snapshot, the bincode of
\* (code_loaded, max_cycles) = (true, 1000000), and one of another VM type
CkbInstanceSnapshot ==
  [data |-> <<1, 64, 66, 15, 0, 0, 0, 0, 0>>, vm_type |-> "CkbVM"]
ForeignSnapshot == [data |-> << >>, vm_type |-> "PolkaVM"]

\* programs: the two of the module's tests, and ones that end without
\* EBREAK, return 0, subtract, and add a negative immediate
TestProgram ==
  <<19, 5, 80, 0,   19, 6, 48, 0,   51, 5, 181, 0,   115, 0, 16, 0>>
EbreakProgram == <<115, 0, 16, 0>>
AddiProgram == <<19, 5, 80, 0>>
ReturnZeroProgram == <<19, 5, 0, 0,   115, 0, 16, 0>>
SubProgram == <<51, 5, 165, 64,   115, 0, 16, 0>>
DecrementProgram == <<19, 5, 245, 255,   115, 0, 16, 0>>
Programs ==
  {TestProgram, EbreakProgram, AddiProgram, ReturnZeroProgram, SubProgram,
   DecrementProgram}

\* prepare_object_memory_layout: the bytes of a JSON object's text, whose
\* keys serde_json writes in sorted order: {"bcs_data":" ... ; a layout here
\* is the first 12 or 13 bytes of that text, one of a length that is a
\* multiple of four and one that is not
LayoutText == <<123, 34, 98, 99, 115, 95, 100, 97, 116, 97, 34, 58, 34>>
LayoutLens == {12, 13}
Layouts == {SubSeq(LayoutText, 1, n) : n \in LayoutLens}

\* what load_code is called with
Codes == Programs \cup Layouts \cup {<< >>, <<19, 5, 80>>}
\* what execute is called with
Inputs == {<< >>, <<1, 2, 3, 4>>}
\* what set_limits is called with
LimitsPool ==
  {DefaultLimits, [DefaultLimits EXCEPT !.max_cycles = 2],
   [DefaultLimits EXCEPT !.max_memory = BaseMemory]}

NoVmOut ==
  [call |-> "", code |-> << >>, input |-> << >>, snapshot |-> NoSnapshot,
   kind |-> "", err |-> "", stop |-> FALSE, result |-> NoVmResult,
   before |-> NewVm]

\* ------------------------------------------------- ParallelScheduler: data
Addrs == 1..NumAddrs
AddrLists == UNION {[1..k -> Addrs] : k \in 0..MaxAccesses}

\* a Transaction, by the two fields the scheduler reads
Transactions == [read_set : AddrLists, write_set : AddrLists]
Batches == UNION {[1..n -> Transactions] : n \in 0..MaxBatch}

StrategyTypes == {"SolanaParallel", "AptosSTM", "SuiObject"}

\* analyze, first loop: the entry of addr in read_conflicts / write_conflicts,
\* the indices (from 0) of the transactions that name addr, one per mention
Mentions(txs, addr, set) ==
  Concat([i \in 1..Len(txs) |->
            LET l == IF set = "read" THEN txs[i].read_set ELSE txs[i].write_set
            IN Concat([k \in 1..Len(l) |-> IF l[k] = addr THEN <<i - 1>> ELSE << >>])])

ConflictMap(txs, set) ==
  [addr \in {a \in Addrs : Mentions(txs, a, set) # << >>} |-> Mentions(txs, addr, set)]

\* analyze, write-write: every pair of positions i < j of the writers
WwEdges(writers) ==
  Concat([i \in 1..Len(writers) |->
            [k \in 1..(Len(writers) - i) |-> <<writers[i], writers[i + k]>>]])

WrEdgesNone(writers, readers) == << >>

\* analyze, write-read: every writer with every reader that is another index
WrEdges(writers, readers) ==
  Concat([i \in 1..Len(writers) |->
            Concat([k \in 1..Len(readers) |->
                      IF writers[i] # readers[k]
                        THEN << <<writers[i], readers[k]>> >> ELSE << >>])])

\* ConflictAnalyzer::analyze; the edges of one address are in the code's
\* order, the addresses in ascending order (the code's is the HashMap's)
Analyze(txs) ==
  LET reads == ConflictMap(txs, "read")
      writes == ConflictMap(txs, "write")
  IN [nodes |-> Len(txs),
      edges |-> Concat([a \in 1..NumAddrs |->
                  IF a \notin DOMAIN writes THEN << >>
                  ELSE WwEdges(writes[a]) \o
                       (IF a \in DOMAIN reads THEN WrEdges(writes[a], reads[a])
                        ELSE << >>)]),
      read_conflicts |-> reads,
      write_conflicts |-> writes]

\* WorkloadAnalyzer::has_conflict
HasConflict(tx1, tx2) ==
  \/ \E i \in 1..Len(tx1.write_set) : tx1.write_set[i] \in Range(tx2.write_set)
  \/ \E i \in 1..Len(tx1.write_set) : tx1.write_set[i] \in Range(tx2.read_set)
  \/ \E i \in 1..Len(tx2.write_set) : tx2.write_set[i] \in Range(tx1.read_set)

\* plan_execution of the three strategies ParallelScheduler::new builds
PlanExecution(st, txs, graph) ==
  IF st = "SolanaParallel"
    THEN [parallel_groups |-> << [i \in 1..Len(txs) |-> i - 1] >>,
          dependency_order |-> [i \in 1..Len(txs) |-> i - 1]]
    ELSE [parallel_groups |-> << >>, dependency_order |-> << >>]

\* TransactionDispatcher::execute_parallel
ExecuteParallel(plan) == << >>

\* the number of results with the given success flag
CountSuccess(results, flag) ==
  Cardinality({i \in 1..Len(results) : results[i].success = flag})

\* calculate_parallel_efficiency: the f64 quotient as numerator and denominator
CalculateParallelEfficiency(results) ==
  IF results = << >> THEN [num |-> 0, den |-> 1]
  ELSE [num |-> CountSuccess(results, TRUE), den |-> Len(results)]

NoGraph == [nodes |-> 0, edges |-> << >>, read_conflicts |-> << >>, write_conflicts |-> << >>]
NoPlan == [parallel_groups |-> << >>, dependency_order |-> << >>]
NoStats ==
  [total_transactions |-> 0, successful_transactions |-> 0, failed_transactions |-> 0,
   parallel_efficiency |-> [num |-> 0, den |-> 1], conflicts_detected |-> 0]
NoBatchResult == [transaction_results |-> << >>, execution_stats |-> NoStats]

\* ----------------------------------------------------------------- state
\* ------------------------------------------------- CompilationCache: data
\* strings are their UTF-8 bytes, which is what bincode writes
StrMain == <<109, 97, 105, 110>>
StrF == <<102>>
StrG == <<103>>
Address1 == <<48, 120, 49, 50, 51>>
Address2 == <<48, 120, 52, 53, 54>>

ContractTypes == <<"EVM", "Move", "BPF", "Script">>
Mutabilities == <<"Pure", "View", "NonPayable", "Payable">>
ParamTags == <<"Uint", "Int", "Bool", "String", "Bytes", "Address", "Array",
               "Tuple">>

\* the position of x in the sequence s, from 0: the index serde gives a variant
VariantIndex(s, x) == CHOOSE i \in 0..(Len(s) - 1) : s[i + 1] = x

\* bincode's fixed-width little-endian integers, for values below 2^31
EncU32(n) ==
  <<n % 256, (n \div 256) % 256, (n \div 65536) % 256, n \div 16777216>>
EncU64(n) == EncU32(n) \o <<0, 0, 0, 0>>
\* a String or a Vec<u8>: its length as u64, then its bytes
EncBytes(s) == EncU64(Len(s)) \o s
EncStrings(ss) ==
  EncU64(Len(ss)) \o Concat([i \in 1..Len(ss) |-> EncBytes(ss[i])])

RECURSIVE EncParamType(_)
EncParamType(p) ==
  EncU32(VariantIndex(ParamTags, p.tag)) \o
  (CASE p.tag \in {"Uint", "Int"} -> EncU64(p.size)
     [] p.tag = "Array" -> EncParamType(p.elem)
     [] p.tag = "Tuple" ->
          EncU64(Len(p.elems))
            \o Concat([i \in 1..Len(p.elems) |-> EncParamType(p.elems[i])])
     [] OTHER -> << >>)
EncParamTypes(ps) ==
  EncU64(Len(ps)) \o Concat([i \in 1..Len(ps) |-> EncParamType(ps[i])])

EncFunctionSignature(f) ==
  EncBytes(f.name) \o EncParamTypes(f.inputs) \o EncParamTypes(f.outputs)
    \o EncU32(VariantIndex(Mutabilities, f.mutability))

\* the orders in which a HashMap may hand its entries to the serializer
IterationOrders(map) ==
  {o \in [1..Cardinality(DOMAIN map) -> DOMAIN map] :
     \A i, j \in DOMAIN o : i # j => o[i] # o[j]}

\* bincode::serialize of a CompiledContract whose exports are visited in order
SerializeContract(c, order) ==
  EncBytes(c.original_address)
    \o EncU32(VariantIndex(ContractTypes, c.source_type))
    \o EncBytes(c.risc_v_code)
    \o EncStrings(c.entry_points)
    \o <<IF c.metadata.gas_metering THEN 1 ELSE 0>>
    \o EncU64(c.metadata.memory_limit)
    \o EncU64(c.metadata.stack_limit)
    \o EncU32(c.metadata.call_depth_limit)
    \o EncU64(Len(order))
    \o Concat([i \in 1..Len(order) |->
                 EncBytes(order[i])
                   \o EncFunctionSignature(c.metadata.exports[order[i]])])
    \o EncU64(c.compiled_at)

\* a reader returns the value read and the position after it, or fails
ReadOk(v, k) == [ok |-> TRUE, val |-> v, next |-> k]
ReadFail == [ok |-> FALSE, val |-> << >>, next |-> 0]

ReadU32(b, k) ==
  IF k + 3 > Len(b) \/ b[k + 3] >= 128 THEN ReadFail
  ELSE ReadOk(b[k] + 256 * b[k + 1] + 65536 * b[k + 2] + 16777216 * b[k + 3],
              k + 4)
ReadU64(b, k) ==
  IF k + 7 > Len(b) \/ \E i \in 4..7 : b[k + i] # 0 THEN ReadFail
  ELSE LET lo == ReadU32(b, k) IN IF lo.ok THEN ReadOk(lo.val, k + 8) ELSE lo
ReadBool(b, k) ==
  IF k > Len(b) \/ b[k] > 1 THEN ReadFail ELSE ReadOk(b[k] = 1, k + 1)
ReadVariant(names, b, k) ==
  LET i == ReadU32(b, k)
  IN IF ~i.ok \/ i.val >= Len(names) THEN ReadFail
     ELSE ReadOk(names[i.val + 1], i.next)
ReadBytes(b, k) ==
  LET n == ReadU64(b, k)
  IN IF ~n.ok \/ n.next + n.val - 1 > Len(b) THEN ReadFail
     ELSE ReadOk(SubSeq(b, n.next, n.next + n.val - 1), n.next + n.val)

\* the result r of a reader handed to what reads on from it
AndThen(r, Rest(_)) == CHOOSE out \in {Rest(x) : x \in {r}} : TRUE
\* ... which is not reached when r failed (the `?` of serde's visitors)
Try(r, Rest(_)) ==
  AndThen(r, LAMBDA x : IF x.ok THEN Rest(x) ELSE ReadFail)

\* n strings from position k
RECURSIVE ReadStringsFrom(_, _, _)
ReadStringsFrom(b, k, n) ==
  IF n = 0 THEN ReadOk(<< >>, k)
  ELSE Try(ReadBytes(b, k), LAMBDA s :
       Try(ReadStringsFrom(b, s.next, n - 1), LAMBDA r :
       ReadOk(<<s.val>> \o r.val, r.next)))
ReadStrings(b, k) ==
  Try(ReadU64(b, k), LAMBDA n : ReadStringsFrom(b, n.next, n.val))

RECURSIVE ReadParamType(_, _)
RECURSIVE ReadParamTypesFrom(_, _, _)
ReadParamType(b, k) ==
  Try(ReadVariant(ParamTags, b, k), LAMBDA t :
    IF t.val \in {"Uint", "Int"}
    THEN Try(ReadU64(b, t.next), LAMBDA n :
         ReadOk([tag |-> t.val, size |-> n.val], n.next))
    ELSE IF t.val = "Array"
    THEN Try(ReadParamType(b, t.next), LAMBDA e :
         ReadOk([tag |-> "Array", elem |-> e.val], e.next))
    ELSE IF t.val = "Tuple"
    THEN Try(ReadU64(b, t.next), LAMBDA n :
         Try(ReadParamTypesFrom(b, n.next, n.val), LAMBDA es :
         ReadOk([tag |-> "Tuple", elems |-> es.val], es.next)))
    ELSE ReadOk([tag |-> t.val], t.next))
ReadParamTypesFrom(b, k, n) ==
  IF n = 0 THEN ReadOk(<< >>, k)
  ELSE Try(ReadParamType(b, k), LAMBDA p :
       Try(ReadParamTypesFrom(b, p.next, n - 1), LAMBDA r :
       ReadOk(<<p.val>> \o r.val, r.next)))
ReadParamTypes(b, k) ==
  Try(ReadU64(b, k), LAMBDA n : ReadParamTypesFrom(b, n.next, n.val))

ReadFunctionSignature(b, k) ==
  Try(ReadBytes(b, k), LAMBDA name :
  Try(ReadParamTypes(b, name.next), LAMBDA inputs :
  Try(ReadParamTypes(b, inputs.next), LAMBDA outputs :
  Try(ReadVariant(Mutabilities, b, outputs.next), LAMBDA mutability :
  ReadOk([name |-> name.val, inputs |-> inputs.val,
          outputs |-> outputs.val, mutability |-> mutability.val],
         mutability.next)))))

\* n entries of a HashMap<String, FunctionSignature> from position k, on top
\* of the entries read so far: a key read twice keeps its last value
RECURSIVE ReadExportsFrom(_, _, _, _)
ReadExportsFrom(b, k, n, map) ==
  IF n = 0 THEN ReadOk(map, k)
  ELSE Try(ReadBytes(b, k), LAMBDA key :
       Try(ReadFunctionSignature(b, key.next), LAMBDA f :
       AndThen([x \in DOMAIN map \cup {key.val} |->
                  IF x = key.val THEN f.val ELSE map[x]], LAMBDA read :
       ReadExportsFrom(b, f.next, n - 1, read))))
NoExports == [x \in {} |-> x]
ReadExports(b, k) ==
  Try(ReadU64(b, k), LAMBDA n :
      ReadExportsFrom(b, n.next, n.val, NoExports))

\* ContractMetadata, its fields in their declared order
ReadContractMetadata(b, k) ==
  Try(ReadBool(b, k), LAMBDA gas_metering :
  Try(ReadU64(b, gas_metering.next), LAMBDA memory_limit :
  Try(ReadU64(b, memory_limit.next), LAMBDA stack_limit :
  Try(ReadU32(b, stack_limit.next), LAMBDA call_depth_limit :
  Try(ReadExports(b, call_depth_limit.next), LAMBDA exports :
  ReadOk([gas_metering |-> gas_metering.val,
          memory_limit |-> memory_limit.val,
          stack_limit |-> stack_limit.val,
          call_depth_limit |-> call_depth_limit.val,
          exports |-> exports.val],
         exports.next))))))

\* deserialization that forgets the exports it read
DeserializeContractNoExports(b) ==
  Try(ReadBytes(b, 1), LAMBDA original_address :
  Try(ReadVariant(ContractTypes, b, original_address.next),
      LAMBDA source_type :
  Try(ReadBytes(b, source_type.next), LAMBDA risc_v_code :
  Try(ReadStrings(b, risc_v_code.next), LAMBDA entry_points :
  Try(ReadContractMetadata(b, entry_points.next), LAMBDA metadata :
  Try(ReadU64(b, metadata.next), LAMBDA compiled_at :
  ReadOk([original_address |-> original_address.val,
          source_type |-> source_type.val,
          risc_v_code |-> risc_v_code.val,
          entry_points |-> entry_points.val,
          metadata |-> [metadata.val EXCEPT !.exports = NoExports],
          compiled_at |-> compiled_at.val],
         compiled_at.next)))))))

\* bincode::deserialize::<CompiledContract>: the fields in their declared
\* order; bytes after the last field are allowed
DeserializeContract(b) ==
  Try(ReadBytes(b, 1), LAMBDA original_address :
  Try(ReadVariant(ContractTypes, b, original_address.next),
      LAMBDA source_type :
  Try(ReadBytes(b, source_type.next), LAMBDA risc_v_code :
  Try(ReadStrings(b, risc_v_code.next), LAMBDA entry_points :
  Try(ReadContractMetadata(b, entry_points.next), LAMBDA metadata :
  Try(ReadU64(b, metadata.next), LAMBDA compiled_at :
  ReadOk([original_address |-> original_address.val,
          source_type |-> source_type.val,
          risc_v_code |-> risc_v_code.val,
          entry_points |-> entry_points.val,
          metadata |-> metadata.val,
          compiled_at |-> compiled_at.val],
         compiled_at.next)))))))

\* the entries the memory tier holds in the model (1000 in the code)
MemoryCapacity == 1
\* the values of chrono::Utc::now().timestamp() a compilation may see
NumTimestamps == 2
FirstTimestamp == 1700000000
Timestamps == FirstTimestamp..(FirstTimestamp + NumTimestamps - 1)

\* lru::LruCache as the list of its entries, the most recently used first
LruHas(c, k) == \E i \in 1..Len(c) : c[i].key = k
LruWithout(c, k) == SelectSeq(c, LAMBDA e : e.key # k)
LruValue(c, k) == (CHOOSE e \in Range(c) : e.key = k).value
\* LruCache::get: a hit moves the entry to the front
LruGet(c, k) ==
  IF LruHas(c, k) THEN <<[key |-> k, value |-> LruValue(c, k)]>>
                         \o LruWithout(c, k)
  ELSE c
\* LruCache::put: the entry goes to the front and the least recently used
\* entries beyond the capacity are dropped
LruPut(c, k, v) ==
  LET all == <<[key |-> k, value |-> v]>> \o LruWithout(c, k)
  IN SubSeq(all, 1, IF Len(all) > MemoryCapacity THEN MemoryCapacity
                    ELSE Len(all))

\* ContractMeta, as far as the loader reads it
Metas ==
  [address : {Address1, Address2}, contract_type : {"EVM"},
   bytecode : {<<96>>, <<97>>}]
\* CodeLoader::generate_cache_key: "{address}-{bytecode.len()}-{type:?}"; a
\* length and a type hold no "-", so the text determines the three parts
GenerateCacheKey(meta) ==
  <<meta.address, Len(meta.bytecode), meta.contract_type>>
CacheKeys == {GenerateCacheKey(meta) : meta \in Metas}

\* DefaultCompiler::generate_placeholder_riscv
PlaceholderRiscv == <<147, 2, 0, 0, 115, 0, 16, 0>>
\* DefaultCompiler::compile at the time now
DefaultCompile(meta, now) ==
  [original_address |-> meta.address,
   source_type |-> meta.contract_type,
   risc_v_code |-> PlaceholderRiscv,
   entry_points |-> <<StrMain>>,
   metadata |-> [gas_metering |-> TRUE,
                 memory_limit |-> 64 * 1024 * 1024,
                 stack_limit |-> 1 * 1024 * 1024,
                 call_depth_limit |-> 1024,
                 exports |-> NoExports],
   compiled_at |-> now]

\* the contract of test_cache_operations
TestContract ==
  [original_address |-> Address1,
   source_type |-> "EVM",
   risc_v_code |-> <<1, 2, 3, 4>>,
   entry_points |-> <<StrMain>>,
   metadata |-> [gas_metering |-> TRUE, memory_limit |-> 1024,
                 stack_limit |-> 512, call_depth_limit |-> 64,
                 exports |-> NoExports],
   compiled_at |-> 1234567890]
\* a contract with two exported functions and every kind of ParamType
ExportingContract ==
  [TestContract EXCEPT
     !.source_type = "Script",
     !.entry_points = <<StrF, StrG>>,
     !.metadata.gas_metering = FALSE,
     !.metadata.exports =
        [x \in {StrF, StrG} |->
           IF x = StrF
           THEN [name |-> StrF,
                 inputs |-> <<[tag |-> "Uint", size |-> 256],
                              [tag |-> "Address"]>>,
                 outputs |-> <<[tag |-> "Bool"]>>,
                 mutability |-> "View"]
           ELSE [name |-> StrG,
                 inputs |-> <<[tag |-> "Array",
                               elem |-> [tag |-> "Bytes"]]>>,
                 outputs |-> <<[tag |-> "Tuple",
                                elems |-> <<[tag |-> "Int", size |-> 64],
                                            [tag |-> "String"]>>]>>,
                 mutability |-> "Payable"]]]
\* the contracts given to put
CompiledContracts ==
  {TestContract, ExportingContract}
    \cup {DefaultCompile(meta, now) : meta \in Metas, now \in Timestamps}

NoContract == [original_address |-> << >>]
\* what the last call on the cache was and what it returned: tier is where a
\* returned contract came from, compiled whether the pipeline ran
NoCacheOut ==
  [call |-> "", key |-> << >>, kind |-> "", value |-> NoContract,
   tier |-> "", compiled |-> FALSE]

\* ---------------------------------------- PredictiveExecutionEngine: data
\* PredictiveExecutionConfig::default
PredictionWindowMs == 5000
\* cache_size_limit in the model (1000 by default)
CacheSizeLimit == 2
\* chrono::Utc::now().timestamp() runs from 0 to MaxNow
MaxNow == 6
\* the block numbers of the GlobalExecutionState given to the engine
NumBlocks == 2
GlobalStates == [block_number : 1..NumBlocks]
\* the results one call of cache_pre_execution_results is given
MaxResults == 2

\* a PredictionKey is text: "path_7" is <<"path_", 7>> here and
\* "0xAlice:1" is <<"0xAlice", 1>>
PredictedTransactions == [from : {"0xAlice"}, nonce : 1..2]
\* PredictionKey::from_transaction: "{from}:{nonce}"
FromTransaction(tx) == <<tx.from, tx.nonce>>
\* PredictionKey::from_path_id: the path id's text
FromPathId(path_id) == path_id
\* optimize_execution_paths names the i-th path "path_{i}". No lookup finds
\* an entry under such a key, so the batches given to
\* cache_pre_execution_results here also hold paths named as a transaction's
\* key is
PathIds ==
  {<<"path_", i>> : i \in 0..0}
    \cup {FromTransaction(tx) : tx \in PredictedTransactions}

\* the predictions optimize_execution_paths is given: a TransactionPrediction
\* names the sender it predicts, and no nonce
MaxPredictions == 2
TransactionPredictions == [predicted_from : {"0xAlice"}]
PredictionLists ==
  UNION {[1..n -> TransactionPredictions] : n \in 1..MaxPredictions}
\* optimize_execution_paths: the i-th prediction (from 0) becomes the path
\* "path_{i}" holding the one predicted transaction
OptimizeExecutionPaths(predictions) ==
  [i \in 1..Len(predictions) |->
     [path_id |-> <<"path_", i - 1>>,
      predicted_transactions |->
        <<[from |-> predictions[i].predicted_from]>>]]

\* execute_predicted_path: execute_transaction_on_state changes nothing, so
\* final_state is the state the path was executed on
ExecutePredictedPath(path_id, current_state, now) ==
  [path_id |-> path_id, final_state |-> current_state, created_at |-> now,
   is_valid |-> TRUE]
NoPreResult ==
  [path_id |-> << >>, final_state |-> [block_number |-> 0], created_at |-> 0,
   is_valid |-> FALSE]

\* is_pre_execution_valid at the time now
IsPreExecutionValid(pre_result, now) ==
  IF now - pre_result.created_at > PredictionWindowMs \div 1000 THEN FALSE
  ELSE pre_result.is_valid

\* the sets evict_oldest_predictions may remove from cache: to_remove entries
\* from the front of the entries sorted by created_at, equal times in the
\* HashMap's order
EvictNewestPredictions(cache) ==
  LET target_size == (CacheSizeLimit * 80) \div 100
      to_remove == Cardinality(DOMAIN cache) - target_size
  IN {gone \in SUBSET DOMAIN cache :
        /\ Cardinality(gone) = to_remove
        /\ \A g \in gone, k \in DOMAIN cache \ gone :
             cache[g].created_at >= cache[k].created_at}
EvictOldestPredictions(cache) ==
  LET target_size == (CacheSizeLimit * 80) \div 100
      to_remove == Cardinality(DOMAIN cache) - target_size
  IN {gone \in SUBSET DOMAIN cache :
        /\ Cardinality(gone) = to_remove
        /\ \A g \in gone, k \in DOMAIN cache \ gone :
             cache[g].created_at <= cache[k].created_at}

\* the last call on the engine: for try_use_pre_execution what it returned,
\* at which time and in which state; for cache_pre_execution_results the
\* cache after the inserts and what was evicted from it
NoPredOut ==
  [call |-> "", key |-> << >>, kind |-> "", value |-> NoPreResult, at |-> 0,
   state |-> [block_number |-> 0], inserted |-> << >>, evicted |-> {},
   predictions |-> << >>]

\* -------------------------------------- AntiFraudEphemeralValidator: data
\* the values get_timestamp returns, in milliseconds
NumMillis == 2
Millis == 1..NumMillis
\* the operations a session's log holds in the model
MaxOperations == 3
ValidatorObjects == {"object"}
OperationTypes == {"increment"}
ChallengeTypes == {"StateProof", "TransactionProof", "HistoryAudit",
                   "RandomSample"}
\* [0u8; 32]: what get_current_state_hash, execute_real_chain_operation and
\* generate_random_nonce return
ZeroHash == [i \in 1..32 |-> 0]

\* create_state_commitment of the state [] at the time now
CreateStateCommitment(now) ==
  [commitment_hash |-> "Sha256(state, nonce)", nonce |-> ZeroHash,
   timestamp |-> now, validator_signature |-> << >>]
\* the session start_secure_session builds at the time now
NewSecureSession(object_id, now, committed_at) ==
  [session_id |-> <<"secure_session_", now>>,
   object_id |-> object_id,
   initial_state_commitment |-> CreateStateCommitment(committed_at),
   operations |-> << >>,
   state_proofs |-> << >>,
   challenge_responses |-> << >>]
\* the VerifiedOperation execute_verified_operation builds at the time now
NewVerifiedOperation(session, operation_type, now) ==
  [operation_id |-> <<"op_", session.session_id, Len(session.operations)>>,
   operation_type |-> operation_type,
   pre_state_hash |-> ZeroHash,
   post_state_hash |-> ZeroHash,
   transaction_digest |-> ZeroHash,
   timestamp |-> now]
NoSession == [session_id |-> << >>]
NoValidatorOut == [call |-> "", kind |-> "", value |-> << >>]

\* ------------------------------------------------ AdaptiveScheduler: data
\* the batches given to the adaptive scheduler: transactions over one address
FeatureTransactions ==
  {tx \in Transactions : Range(tx.read_set) \cup Range(tx.write_set) \subseteq {1}}
MaxFeatureBatch == 2
FeatureBatches ==
  UNION {[1..n -> FeatureTransactions] : n \in 0..MaxFeatureBatch}
\* the strategies in the order predict_all_strategies visits them
StrategyOrder == <<"SolanaParallel", "AptosSTM", "SuiObject">>
\* retrain_model trains once a strategy_type has this many samples
MinTrainingSamples == 5
\* whether the build checks integer overflow: debug builds do, release
\* builds wrap
Builds == {"debug", "release"}

\* an f64 that is a quotient of small integers
Quot(n, d) == [num |-> n, den |-> d]

\* calculate_conflict_density. For the empty batch len() - 1 leaves usize: a
\* build that checks overflow panics, one that wraps multiplies by 0
CalculateConflictDensity(txs, build) ==
  LET total_pairs == (Len(txs) * (Len(txs) - 1)) \div 2
      conflicts == Cardinality({p \in (1..Len(txs)) \X (1..Len(txs)) :
                                  p[1] < p[2] /\ HasConflict(txs[p[1]], txs[p[2]])})
  IN IF Len(txs) = 0 /\ build = "debug"
     THEN [kind |-> "Panic", value |-> Quot(0, 1)]
     ELSE IF total_pairs = 0 THEN [kind |-> "Ok", value |-> Quot(0, 1)]
     ELSE [kind |-> "Ok", value |-> Quot(conflicts, total_pairs)]

\* calculate_read_write_ratio; a denominator of 0 is f64::INFINITY
CalculateReadWriteRatio(txs) ==
  Quot(Len(Concat([i \in 1..Len(txs) |-> txs[i].read_set])),
       Len(Concat([i \in 1..Len(txs) |-> txs[i].write_set])))

\* extract_features, by the three features the models read
ExtractFeatures(txs, build) ==
  LET conflict_density == CalculateConflictDensity(txs, build)
  IN IF conflict_density.kind = "Panic"
     THEN [kind |-> "Panic", transaction_count |-> 0,
           conflict_density |-> Quot(0, 1), read_write_ratio |-> Quot(0, 1)]
     ELSE [kind |-> "Ok", transaction_count |-> Len(txs),
           conflict_density |-> conflict_density.value,
           read_write_ratio |-> CalculateReadWriteRatio(txs)]
NoFeatures ==
  [kind |-> "", transaction_count |-> 0, conflict_density |-> Quot(0, 1),
   read_write_ratio |-> Quot(0, 1)]

\* PredictionModel::default_for_strategy, which PredictionModel::train
\* returns too
DefaultForStrategy(strategy_type) ==
  CASE strategy_type = "SolanaParallel" ->
         [strategy |-> strategy_type, weights |-> <<100, -50, 20>>, bias |-> 1000]
    [] strategy_type = "AptosSTM" ->
         [strategy |-> strategy_type, weights |-> <<80, -30, 30>>, bias |-> 800]
    [] strategy_type = "SuiObject" ->
         [strategy |-> strategy_type, weights |-> <<120, -20, 10>>, bias |-> 1200]

\* PredictionModel::predict: the tps as a quotient over the product of the
\* two features' denominators, at least 1
ModelPredict(model, features) ==
  LET d == features.conflict_density
      rw == features.read_write_ratio
      \* read_write_ratio.min(10.0)
      r == IF rw.den = 0 \/ rw.num > 10 * rw.den THEN Quot(10, 1) ELSE rw
      den == d.den * r.den
      num == (model.bias + model.weights[1] * features.transaction_count) * den
               + model.weights[2] * d.num * r.den
               + model.weights[3] * r.num * d.den
  IN IF num < den THEN Quot(den, den) ELSE Quot(num, den)

\* PerformancePredictor::predict: nothing for a strategy_type without a model
PredictorPredict(models, accurate, strategy_type, features) ==
  IF strategy_type \in DOMAIN models
  THEN <<[strategy |-> strategy_type,
          predicted_tps |-> ModelPredict(models[strategy_type], features),
          confidence |-> IF strategy_type \in accurate THEN "accuracy" ELSE "0.5"]>>
  ELSE << >>

\* predict_all_strategies
PredictAllStrategies(models, accurate, features) ==
  Concat([i \in 1..Len(StrategyOrder) |->
            PredictorPredict(models, accurate, StrategyOrder[i], features)])

\* StrategySelector::select_best with GreedyBest: the last of the predictions
\* with the highest tps (they share a denominator)
SelectBest(predictions) ==
  IF predictions = << >> THEN "SolanaParallel"
  ELSE LET best == CHOOSE i \in 1..Len(predictions) :
                     /\ \A j \in 1..Len(predictions) :
                          predictions[j].predicted_tps.num
                            <= predictions[i].predicted_tps.num
                     /\ \A j \in (i + 1)..Len(predictions) :
                          predictions[j].predicted_tps.num
                            < predictions[i].predicted_tps.num
       IN predictions[best].strategy

NoAdaptiveOut ==
  [call |-> "", kind |-> "", transactions |-> << >>,
   features |-> NoFeatures, predictions |-> << >>, strategy |-> ""]

\* ---------------------------------------------------- PluginManager: data
\* str::contains and str::ends_with on a path as its sequence of characters
Contains(s, sub) ==
  \E i \in 0..(Len(s) - Len(sub)) : SubSeq(s, i + 1, i + Len(sub)) = sub
EndsWith(s, suffix) ==
  /\ Len(suffix) <= Len(s)
  /\ SubSeq(s, Len(s) - Len(suffix) + 1, Len(s)) = suffix

DotDot == <<".", ".">>
SuffixSo == <<".", "s", "o">>
SuffixDylib == <<".", "d", "y", "l", "i", "b">>
SuffixDll == <<".", "d", "l", "l">>
\* the paths given to load_plugin: a directory part, a stem and an ending
PathDirs == {<< >>, <<".", ".", "/">>, <<"a", "/">>}
PathStems == {<<"p">>}
PathEndings ==
  {SuffixSo, SuffixDylib, SuffixDll, <<".", "t", "x", "t">>, << >>,
   <<"s", "o">>, <<".", "s", "o", ".", "1">>, <<".", ".", "s", "o">>}
PluginPaths == {d \o s \o e : d \in PathDirs, s \in PathStems, e \in PathEndings}

\* std::env::consts::DLL_SUFFIX of the platform the manager runs on
Platforms == {"linux", "macos", "windows"}
DllSuffix(platform) ==
  CASE platform = "linux" -> SuffixSo
    [] platform = "macos" -> SuffixDylib
    [] platform = "windows" -> SuffixDll

\* is_safe_plugin_path
IsSafePluginPathAnyName(path) ==
  ~Contains(path, DotDot)
IsSafePluginPath(path) ==
  IF Contains(path, DotDot) THEN FALSE
  ELSE IF ~EndsWith(path, SuffixSo) /\ ~EndsWith(path, SuffixDylib)
            /\ ~EndsWith(path, SuffixDll)
       THEN FALSE
       ELSE TRUE

\* what is found at a path: no library that loads, a library without the
\* symbol create_plugin, one whose create_plugin returns null, or a plugin
\* with its name and version
MaxHandles == 2
PluginHandles == 1..MaxHandles
PluginFiles ==
  {[kind |-> k, name |-> "", version |-> ""] :
      k \in {"NoLibrary", "NoSymbol", "Null"}}
    \cup [kind : {"Plugin"}, name : {"", "example-compiler"},
          version : {"", "0.1.0"}]
\* validate_plugin
ValidatePlugin(plugin) ==
  IF plugin.name = "" THEN "Plugin name cannot be empty"
  ELSE IF plugin.version = "" THEN "Plugin version cannot be empty"
       ELSE "Ok"

NoPluginOut ==
  [call |-> "", path |-> << >>, platform |-> "", kind |-> "",
   library_opened |-> FALSE, handle |-> 0]

\* ------------------------------------------------ ZeroCopyStateSync: data
StateRoots == {"root_a", "root_b"}
\* the views one synchronizer makes; generate_view_id gives each a new id
MaxViews == 4
ViewIds == 1..MaxViews
\* MemoryMapper::create_mapping of the 4096 bytes fetch_onchain_state returns
CreateMapping ==
  <<[virtual_addr |-> 268435456, physical_addr |-> 536870912, size |-> 4096,
     protection |-> "ReadOnly", mapping_type |-> "Direct"]>>
\* MemoryMapper::create_cow_mapping
CreateCowMapping(base_regions) ==
  [i \in 1..Len(base_regions) |->
     [virtual_addr |-> 805306368,
      physical_addr |-> base_regions[i].physical_addr,
      size |-> base_regions[i].size,
      protection |-> "ReadWrite", mapping_type |-> "CopyOnWrite"]]
NoView ==
  [view_id |-> 0, state_root |-> "", mapped_regions |-> << >>,
   access_mode |-> "", version |-> 0]
\* StateMirror::find_view_by_state_root: the views values().find() can
\* return, the first of the map's iteration order that has the root
FindViewByStateRoot(views, state_root) ==
  {views[id] : id \in {i \in DOMAIN views : views[i].state_root = state_root}}
NoViewOut ==
  [call |-> "", kind |-> "", state_root |-> "", reused |-> FALSE,
   view |-> NoView]

\* ------------------------------------------- CounterPredictiveEngine: data
\* the counter values and the seconds of the model
CounterValues == {5, 101}
MaxCounterNow == 6
Hours == 0..23
CounterUsers == {"0xAlice"}
CounterOperations ==
  {<<"Increment">>, <<"Reset">>, <<"Read">>} \cup {<<"SetValue", 0>>}
\* is_cache_valid: seconds a cached result stays valid
CacheValidSecs == 5

\* UserBehaviorAnalyzer::analyze_current_patterns; operation_frequency in
\* thousandths per minute
AnalyzeCurrentPatterns ==
  <<[address |-> "0xAlice", preferred_operations |-> <<<<"Increment">>>>,
     active_hours |-> {9, 10, 11, 14, 15, 16}, operation_frequency |-> 200],
    [address |-> "0xBob",
     preferred_operations |-> <<<<"Reset">>, <<"SetValue", 0>>>>,
     active_hours |-> {18, 19, 20, 21}, operation_frequency |-> 17],
    [address |-> "0xCharlie", preferred_operations |-> <<<<"Increment">>>>,
     active_hours |-> Hours, operation_frequency |-> 6000]>>

\* predict_next_operation_for_user at the hour given: << >> for None
PredictNextOperationForUser(pattern, current_value, current_hour) ==
  IF current_hour \notin pattern.active_hours THEN << >>
  ELSE IF pattern.preferred_operations = << >> THEN << >>
  ELSE LET first == pattern.preferred_operations[1][1]
       IN CASE first = "Increment" -> <<<<"Increment">>>>
            [] first = "Reset" ->
                 IF current_value > 100 THEN <<<<"Reset">>>> ELSE << >>
            [] first = "SetValue" -> <<<<"SetValue", current_value \div 2>>>>
            [] first = "Read" -> <<<<"Read">>>>

\* calculate_confidence in hundred-thousandths:
\* (operation_frequency * 0.1).min(1.0) times 0.9 or 0.3
CalculateConfidence(pattern, op) ==
  LET scaled == pattern.operation_frequency
      frequency_factor == IF scaled < 10000 THEN scaled ELSE 10000
      preference_factor ==
        IF \E i \in 1..Len(pattern.preferred_operations) :
             pattern.preferred_operations[i] = op
        THEN 9 ELSE 3
  IN frequency_factor * preference_factor
\* predict_and_pre_execute pre-executes above this confidence (0.8)
ConfidenceThreshold == 80000

\* predict_next_operations
PredictNextOperations(user_patterns, current_counter_value, current_hour) ==
  Concat([i \in 1..Len(user_patterns) |->
    LET next_operation ==
          PredictNextOperationForUser(user_patterns[i], current_counter_value,
                                      current_hour)
    IN IF next_operation = << >> THEN << >>
       ELSE <<[user |-> user_patterns[i].address,
               operation |-> next_operation[1],
               confidence |-> CalculateConfidence(user_patterns[i],
                                                  next_operation[1]),
               expected_counter_state |-> current_counter_value]>>])

\* the Move execution both pre_execute_operation and execute_normally mimic
ExecuteCounter(op, current_value) ==
  CASE op[1] = "Increment" -> [value |-> current_value + 1, gas_used |-> 100]
    [] op[1] = "Reset" -> [value |-> 0, gas_used |-> 150]
    [] op[1] = "SetValue" -> [value |-> op[2], gas_used |-> 200]
    [] op[1] = "Read" -> [value |-> current_value, gas_used |-> 50]
\* pre_execute_operation
PreExecuteOperation(prediction, current_value, now) ==
  [operation |-> prediction.operation, before_value |-> current_value,
   after_value |-> ExecuteCounter(prediction.operation, current_value).value,
   gas_used |-> ExecuteCounter(prediction.operation, current_value).gas_used,
   cached_at |-> now]
\* the key PredictionCache gives a result: format!("{:?}_{}", operation, value)
CounterCacheKey(op, value) == <<op, "_", value>>

NoCounterOut ==
  [call |-> "", value |-> 0, operation |-> << >>, predictions |-> << >>,
   results |-> << >>, cache_hit |-> FALSE, final_value |-> 0, gas_used |-> 0]

\* ----------------------------- the manager's tokio locks and their waiters
\* locked_objects and execution_sessions are tokio RwLocks, pending_executions
\* a tokio Mutex. tokio grants them first-in first-out: a reader that arrives
\* behind a waiting writer waits too.
LockNames == {"locked_objects", "execution_sessions", "pending_executions"}
NumStatsCallers == 1
\* the callers of get_execution_stats, numbered after the execute_offchain tasks
StatsCallers == (NumTasks + 1)..(NumTasks + NumStatsCallers)
LockProcs == Tasks \cup StatsCallers
\* the length of a request's shared_objects as the lock steps see it
MaxSharedObjects == 1
FreeLock == [readers |-> {}, writer |-> NoTask, queue |-> << >>]

\* lock.read().await / lock.write().await: the caller joins the queue
Enqueue(locks, l, p, mode) ==
  [locks EXCEPT ![l].queue = Append(@, <<p, mode>>)]
\* the head of the queue gets the lock when what it asks for is free
CanGrant(locks, l, p) ==
  /\ locks[l].queue # << >>
  /\ Head(locks[l].queue)[1] = p
  /\ locks[l].writer = NoTask
  /\ Head(locks[l].queue)[2] = "W" => locks[l].readers = {}
\* the guard is handed to the head of the queue
Grant(locks, l) ==
  LET h == Head(locks[l].queue)
  IN [locks EXCEPT ![l].queue = Tail(@),
                   ![l].readers = IF h[2] = "R" THEN @ \cup {h[1]} ELSE @,
                   ![l].writer = IF h[2] = "W" THEN h[1] ELSE @]
\* the guard is dropped
Release(locks, l, p) ==
  [locks EXCEPT ![l].readers = @ \ {p},
                ![l].writer = IF @ = p THEN NoTask ELSE @]
\* a guard that is a temporary of one statement without an await in it:
\* granted and dropped in the same step
GrantAndRelease(locks, l) == [locks EXCEPT ![l].queue = Tail(@)]

\* get_execution_stats takes its three guards in this order and holds them
\* to its end
StatsOrderSessionsFirst ==
  <<"execution_sessions", "locked_objects", "pending_executions">>
StatsOrder == <<"locked_objects", "execution_sessions", "pending_executions">>

VARIABLES
  locked_objects,     \* HashMap object id -> LockedObject
  insertedBy,         \* object id -> the call whose insert stored the entry now in the map
  execution_sessions, \* HashMap session id -> ExecutionSession
  locksReaders,       \* tasks holding a locked_objects read guard across an await
  sessionsWriter,     \* task holding the execution_sessions write guard across an await
  pc,                 \* where each execute_offchain call is
  request,            \* its ExecutionRequest
  idx,                \* its position in the object list of the current loop
  execResult,         \* its local execution_result
  result,             \* what the call returned
  failedAt,           \* the step whose Err the call returned (0: none)
  startedDuring,      \* the calls that were in flight when this one was made
  pendingUpdates,     \* step 5: the call's modified objects not yet synced
  txCalls,            \* the adapter's transaction calls made so far
  complete_vm,        \* a CompleteCkbVmInstance
  vmOut,              \* its last call and what the call returned
  vmCalls,            \* the number of calls made on it
  vmSnapshot,         \* the last VmSnapshot taken of it
  snapVm,             \* the instance as it was when that snapshot was taken
  schedPc,            \* the scheduler: none, ready (built), done (batch returned)
  strategy,           \* its StrategyType
  transactions,       \* the batch given to submit_batch
  conflict_graph,     \* submit_batch's ConflictGraph
  execution_plan,     \* submit_batch's ExecutionPlan
  batch_result,       \* the BatchResult it returned
  memory_cache,       \* CompilationCache: the LRU of deserialized contracts
  disk_cache,         \* its persistent store: key -> serialized contract
  cacheStored,        \* per key, the contract last given to put and not removed since
  cacheOut,           \* the last call on the cache or the loader and what it returned
  pre_results,        \* PreExecutionCache: PredictionKey -> PreExecutionResult
  predNow,            \* the engine's clock, in seconds
  predState,          \* the GlobalExecutionState the node is in
  predOut,            \* the last call on the engine and what it did
  current_session,    \* AntiFraudEphemeralValidator: Option<SecureEphemeralSession>
  validatorOut,       \* the validator's last call and what it returned
  models,             \* PerformancePredictor: strategy -> PredictionModel
  training_data,      \* the number of its training examples, per strategy
  model_accuracy,     \* the strategies it holds an accuracy for
  current_strategy,   \* AdaptiveScheduler: the strategy last selected
  adaptiveOut,        \* the adaptive scheduler's last call and what it returned
  plugins,            \* PluginManager: handle -> loaded plugin
  next_handle,        \* PluginManager: the next handle to give out
  pluginOut,          \* the plugin manager's last call and what it returned
  active_views,       \* StateMirror: view id -> StateView
  enable_cow,         \* ZeroCopySyncConfig: whether copy-on-write views are allowed
  syncBuilt,          \* whether ZeroCopyStateSync::new has run
  viewOut,            \* the synchronizer's last call and what it returned
  prediction_cache,   \* CounterPredictiveEngine: key -> PreExecutionResult
  counterNow,         \* the seconds passed on the engine's clock
  predictedAt,        \* counter value -> second of the last predict_and_pre_execute of it
  counterOut,         \* the counter engine's last call and what it returned
  rwLocks,            \* per lock of the manager: its read guards, its write guard, its queue
  lockPc,             \* where each caller is between two lock operations
  lockIdx,            \* its position in the loop over the objects (stats: the guard it takes)
  lockLen             \* the length of its request's shared_objects

mgrVars == <<locked_objects, insertedBy, execution_sessions, locksReaders, sessionsWriter,
             pc, request, idx, execResult, result, failedAt, startedDuring,
             pendingUpdates, txCalls>>
vmVars == <<complete_vm, vmOut, vmCalls, vmSnapshot, snapVm>>
schedVars == <<schedPc, strategy, transactions, conflict_graph, execution_plan,
               batch_result>>
cacheVars == <<memory_cache, disk_cache, cacheStored, cacheOut>>
predictVars == <<pre_results, predNow, predState, predOut>>
validatorVars == <<current_session, validatorOut>>
adaptiveVars == <<models, training_data, model_accuracy, current_strategy, adaptiveOut>>
pluginVars == <<plugins, next_handle, pluginOut>>
zeroCopyVars == <<active_views, enable_cow, syncBuilt, viewOut>>
counterVars == <<prediction_cache, counterNow, predictedAt, counterOut>>
lockVars == <<rwLocks, lockPc, lockIdx, lockLen>>
vars == <<mgrVars, vmVars, schedVars, cacheVars, predictVars, validatorVars, adaptiveVars, pluginVars, zeroCopyVars, counterVars, lockVars>>
\* what the actions of one component leave alone
notMgrVars == <<vmVars, schedVars, cacheVars, predictVars, validatorVars, adaptiveVars, pluginVars, zeroCopyVars, counterVars, lockVars>>
notVmVars == <<mgrVars, schedVars, cacheVars, predictVars, validatorVars, adaptiveVars, pluginVars, zeroCopyVars, counterVars, lockVars>>
notSchedVars == <<mgrVars, vmVars, cacheVars, predictVars, validatorVars, adaptiveVars, pluginVars, zeroCopyVars, counterVars, lockVars>>
notCacheVars == <<mgrVars, vmVars, schedVars, predictVars, validatorVars, adaptiveVars, pluginVars, zeroCopyVars, counterVars, lockVars>>
notPredictVars == <<mgrVars, vmVars, schedVars, cacheVars, validatorVars, adaptiveVars, pluginVars, zeroCopyVars, counterVars, lockVars>>
notValidatorVars == <<mgrVars, vmVars, schedVars, cacheVars, predictVars, adaptiveVars, pluginVars, zeroCopyVars, counterVars, lockVars>>
notAdaptiveVars == <<mgrVars, vmVars, schedVars, cacheVars, predictVars, validatorVars, pluginVars, zeroCopyVars, counterVars, lockVars>>
notPluginVars == <<mgrVars, vmVars, schedVars, cacheVars, predictVars, validatorVars, adaptiveVars, zeroCopyVars, counterVars, lockVars>>
notZeroCopyVars == <<mgrVars, vmVars, schedVars, cacheVars, predictVars, validatorVars, adaptiveVars, pluginVars, counterVars, lockVars>>
notCounterVars == <<mgrVars, vmVars, schedVars, cacheVars, predictVars, validatorVars, adaptiveVars, pluginVars, zeroCopyVars, lockVars>>
notLockVars == <<mgrVars, vmVars, schedVars, cacheVars, predictVars, validatorVars, adaptiveVars, pluginVars, zeroCopyVars, counterVars>>

\* HashMap::insert and HashMap::remove
MapInsert(m, k, v) == [x \in DOMAIN m \cup {k} |-> IF x = k THEN v ELSE m[x]]
MapRemove(m, k) == [x \in DOMAIN m \ {k} |-> m[x]]
EmptyMap == [x \in {} |-> 0]

\* tokio RwLock: a write guard needs no other holder, a read guard no writer
LocksWritable(t) == locksReaders \ {t} = {}
SessionsWritable(t) == sessionsWriter = NoTask

\* no scheduler built yet
SchedulerIdle ==
  /\ schedPc = "none"
  /\ strategy = ""
  /\ transactions = << >>
  /\ conflict_graph = NoGraph
  /\ execution_plan = NoPlan
  /\ batch_result = NoBatchResult

\* CompilationCache::new on an empty directory
CacheIdle ==
  /\ memory_cache = << >>
  /\ disk_cache = EmptyMap
  /\ cacheStored = [k \in CacheKeys |-> NoContract]
  /\ cacheOut = NoCacheOut

\* PredictiveExecutionEngine::new
PredictIdle ==
  /\ pre_results = EmptyMap
  /\ predNow = 0
  /\ predState = [block_number |-> 1]
  /\ predOut = NoPredOut

\* a validator without a session
ValidatorIdle ==
  /\ current_session = NoSession
  /\ validatorOut = NoValidatorOut

\* AdaptiveScheduler::new
AdaptiveIdle ==
  /\ models = EmptyMap
  /\ training_data = [s \in StrategyTypes |-> 0]
  /\ model_accuracy = {}
  /\ current_strategy = "SolanaParallel"
  /\ adaptiveOut = NoAdaptiveOut

\* PluginManager::new
PluginIdle ==
  /\ plugins = EmptyMap
  /\ next_handle = 1
  /\ pluginOut = NoPluginOut

\* before ZeroCopyStateSync::new
ZeroCopyIdle ==
  /\ active_views = EmptyMap
  /\ enable_cow = FALSE
  /\ syncBuilt = FALSE
  /\ viewOut = NoViewOut

\* CounterPredictiveEngine::new
CounterIdle ==
  /\ prediction_cache = EmptyMap
  /\ counterNow = 0
  /\ predictedAt = EmptyMap
  /\ counterOut = NoCounterOut

\* OffchainExecutionManager::new: the locks are free and nobody calls
LocksIdle ==
  /\ rwLocks = [l \in LockNames |-> FreeLock]
  /\ lockPc = [p \in LockProcs |-> "idle"]
  /\ lockIdx = [p \in LockProcs |-> 0]
  /\ lockLen = [p \in LockProcs |-> 0]

Init ==
  /\ locked_objects = EmptyMap
  /\ insertedBy = EmptyMap
  /\ execution_sessions = EmptyMap
  /\ locksReaders = {}
  /\ sessionsWriter = NoTask
  /\ pc = [t \in Tasks |-> "idle"]
  /\ request = [t \in Tasks |-> NoRequest]
  /\ idx = [t \in Tasks |-> 0]
  /\ execResult = [t \in Tasks |-> NoExec]
  /\ result = [t \in Tasks |-> NoResult]
  /\ failedAt = [t \in Tasks |-> 0]
  /\ startedDuring = [t \in Tasks |-> {}]
  /\ pendingUpdates = [t \in Tasks |-> << >>]
  /\ txCalls = {}
  /\ complete_vm = NewVm
  /\ vmOut = NoVmOut
  /\ vmCalls = 0
  /\ vmSnapshot = NoSnapshot
  /\ snapVm = NewVm
  /\ SchedulerIdle
  /\ CacheIdle
  /\ PredictIdle
  /\ ValidatorIdle
  /\ AdaptiveIdle
  /\ PluginIdle
  /\ ZeroCopyIdle
  /\ CounterIdle
  /\ LocksIdle

\* the call returns: `?` on an Err, or the final Ok
Return(t, r) ==
  /\ pc' = [pc EXCEPT ![t] = "done"]
  /\ result' = [result EXCEPT ![t] = r]
  /\ failedAt' = [failedAt EXCEPT ![t] = IF r.kind = "Err" THEN StepOf(pc[t]) ELSE 0]
  /\ idx' = [idx EXCEPT ![t] = 0]

\* move on to `next` with the loop index reset
Goto(t, next) ==
  /\ pc' = [pc EXCEPT ![t] = next]
  /\ idx' = [idx EXCEPT ![t] = 1]
  /\ UNCHANGED <<result, failedAt>>

\* a caller invokes execute_offchain(req); tasks are used in order
Submit(t) ==
  /\ pc[t] = "idle"
  /\ (t > 1) => (pc[t - 1] # "idle")
  /\ \E req \in Requests :
       /\ request' = [request EXCEPT ![t] = req]
       /\ startedDuring' = [startedDuring EXCEPT ![t] =
            {u \in Tasks : pc[u] \notin {"idle", "done"}}]
       /\ Goto(t, IF req.shared_objects = << >> THEN "create" ELSE "lock")
  /\ UNCHANGED notMgrVars
  /\ UNCHANGED <<locked_objects, insertedBy, execution_sessions, locksReaders,
                 sessionsWriter, execResult, pendingUpdates, txCalls>>

\* after the loop over `objs` has handled position idx[t]: on to the next
\* object, or on to `next` when that was the last one
Advance(t, objs, here, next) ==
  IF idx[t] < Len(objs)
  THEN /\ pc' = [pc EXCEPT ![t] = here]
       /\ idx' = [idx EXCEPT ![t] = idx[t] + 1]
       /\ UNCHANGED <<result, failedAt>>
  ELSE Goto(t, next)

\* lock_mainnet_objects as it would be with a fail-fast check of the key
\* before the insert
LockObjectFailFast(t) ==
  /\ pc[t] = "lock"
  /\ LET objs == request[t].shared_objects
         obj == objs[idx[t]]
     IN \/ /\ Return(t, ErrResult("StateFetchError"))
           /\ UNCHANGED <<locked_objects, insertedBy>>
        \/ /\ LocksWritable(t)
           /\ IF obj \in DOMAIN locked_objects
              THEN /\ Return(t, ErrResult("LockConflict"))
                   /\ UNCHANGED <<locked_objects, insertedBy>>
              ELSE /\ locked_objects' = MapInsert(locked_objects, obj, LockedObject(obj))
                   /\ insertedBy' = MapInsert(insertedBy, obj, t)
                   /\ Advance(t, objs, "lock", "create")
  /\ UNCHANGED notMgrVars
  /\ UNCHANGED <<execution_sessions, locksReaders, sessionsWriter,
                 request, execResult, startedDuring,
                 pendingUpdates, txCalls>>

\* Step 1, one turn of the loop of lock_mainnet_objects: fetch the object's
\* ContractMeta, then insert its LockedObject.  Nothing looks the key up first,
\* and an Err of the fetch leaves through `?` with the earlier inserts in place.
LockObject(t) ==
  /\ pc[t] = "lock"
  /\ LET objs == request[t].shared_objects
         obj == objs[idx[t]]
     IN \/ /\ Return(t, ErrResult("StateFetchError"))
           /\ UNCHANGED <<locked_objects, insertedBy>>
        \/ /\ LocksWritable(t)
           /\ locked_objects' = MapInsert(locked_objects, obj, LockedObject(obj))
           /\ insertedBy' = MapInsert(insertedBy, obj, t)
           /\ Advance(t, objs, "lock", "create")
  /\ UNCHANGED notMgrVars
  /\ UNCHANGED <<execution_sessions, locksReaders, sessionsWriter,
                 request, execResult, startedDuring,
                 pendingUpdates, txCalls>>

\* CkbVmInstance::load_code of non-empty bytes: it keeps nothing of them
CkbLoadCode(vm) == [vm EXCEPT !.code_loaded = TRUE]

\* VmManager::create_instance(Some(VmType::CkbVM)): a ckb::CkbVmInstance
CreateInstance == [code_loaded |-> FALSE]

\* ExecutionSession as stored by create_execution_session
NewSession(req) ==
  [session_id |-> req.session_id,
   package_id |-> req.package_id,
   locked_objects |-> req.shared_objects,
   vm_instance |-> CkbLoadCode(CreateInstance),
   status |-> ObjectsLocked]

\* Step 2, create_execution_session: the package fetch, the compile or the
\* load can fail (Err through `?`, nothing stored, nothing unlocked); otherwise
\* the session is inserted under its session id, replacing any entry there.
CreateExecutionSession(t) ==
  /\ pc[t] = "create"
  /\ \/ /\ \E reason \in {"StateFetchError", "CompileError"} :
             Return(t, ErrResult(reason))
        /\ UNCHANGED execution_sessions
     \/ /\ SessionsWritable(t)
        /\ execution_sessions' =
             MapInsert(execution_sessions, request[t].session_id, NewSession(request[t]))
        /\ Goto(t, "sync_status")
  /\ UNCHANGED notMgrVars
  /\ UNCHANGED <<locked_objects, insertedBy, locksReaders, sessionsWriter,
                 request, execResult, startedDuring,
                 pendingUpdates, txCalls>>

\* `if let Some(stored) = sessions.write().await.get_mut(id) { stored.status = s }`
SetStatus(sessions, sid, s) ==
  IF sid \in DOMAIN sessions
  THEN [sessions EXCEPT ![sid].status = s]
  ELSE sessions

\* Step 3, head of sync_state_to_offchain: status := StateSync
SyncStatus(t) ==
  /\ pc[t] = "sync_status"
  /\ SessionsWritable(t)
  /\ execution_sessions' = SetStatus(execution_sessions, request[t].session_id, StateSync)
  /\ Goto(t, IF request[t].shared_objects = << >> THEN "exec_status" ELSE "sync_obj")
  /\ UNCHANGED notMgrVars
  /\ UNCHANGED <<locked_objects, insertedBy, locksReaders, sessionsWriter,
                 request, execResult, startedDuring,
                 pendingUpdates, txCalls>>

\* Step 3, loop: `if let Some(_) = self.locked_objects.read().await.get(id)`.
\* The read guard is a temporary of the if-let scrutinee, so it is held for
\* the whole body; an object no longer in the map is skipped.
SyncAcquire(t) ==
  /\ pc[t] = "sync_obj"
  /\ LET objs == request[t].shared_objects
         obj == objs[idx[t]]
     IN IF obj \in DOMAIN locked_objects
        THEN /\ locksReaders' = locksReaders \cup {t}
             /\ pc' = [pc EXCEPT ![t] = "sync_load"]
             /\ UNCHANGED <<idx, result, failedAt>>
        ELSE /\ Advance(t, objs, "sync_obj", "exec_status")
             /\ UNCHANGED locksReaders
  /\ UNCHANGED notMgrVars
  /\ UNCHANGED <<locked_objects, insertedBy, execution_sessions, sessionsWriter,
                 request, execResult, startedDuring,
                 pendingUpdates, txCalls>>

\* Step 3, body: fetch the BCS bytes and the object data, then under the
\* sessions write lock load_code(memory_layout) on the stored VM (the layout
\* is JSON text, never empty, so CkbVmInstance::load_code accepts it).
SyncLoad(t) ==
  /\ pc[t] = "sync_load"
  /\ locksReaders' = locksReaders \ {t}
  /\ LET objs == request[t].shared_objects
         obj == objs[idx[t]]
         sid == request[t].session_id
     IN \/ /\ Return(t, ErrResult("StateFetchError"))
           /\ UNCHANGED execution_sessions
        \/ /\ SessionsWritable(t)
           /\ execution_sessions' =
                [execution_sessions EXCEPT ![sid].vm_instance = CkbLoadCode(@)]
           /\ Advance(t, objs, "sync_obj", "exec_status")
  /\ UNCHANGED notMgrVars
  /\ UNCHANGED <<locked_objects, insertedBy, sessionsWriter, request, execResult, startedDuring,
                 pendingUpdates, txCalls>>

\* Step 4, head of execute_in_ckb_vm: status := Executing
ExecStatus(t) ==
  /\ pc[t] = "exec_status"
  /\ SessionsWritable(t)
  /\ execution_sessions' = SetStatus(execution_sessions, request[t].session_id, Executing)
  /\ Goto(t, "exec_begin")
  /\ UNCHANGED notMgrVars
  /\ UNCHANGED <<locked_objects, insertedBy, locksReaders, sessionsWriter,
                 request, execResult, startedDuring,
                 pendingUpdates, txCalls>>

\* Step 4: `let mut vm_sessions = self.execution_sessions.write().await;` the
\* guard lives to the end of the function, across vm_instance.execute().await
ExecBegin(t) ==
  /\ pc[t] = "exec_begin"
  /\ SessionsWritable(t)
  /\ sessionsWriter' = t
  /\ pc' = [pc EXCEPT ![t] = "exec_run"]
  /\ UNCHANGED notMgrVars
  /\ UNCHANGED <<locked_objects, insertedBy, execution_sessions, locksReaders,
                 request, idx, execResult, result, failedAt, startedDuring,
                 pendingUpdates, txCalls>>

\* CkbVmInstance::execute: Err without loaded code, else
\* Ok(ExecutionResult { success: true, error: None, .. })
CkbExecute(vm) ==
  IF vm.code_loaded
  THEN [kind |-> "Ok", success |-> TRUE, error |-> ""]
  ELSE [kind |-> "Err", success |-> FALSE, error |-> "No code loaded"]

\* result.error.clone().unwrap_or("Unknown error")
UnknownError == "Unknown error"

\* Step 4, the VM run and what follows it under the same write guard
ExecRun(t) ==
  /\ pc[t] = "exec_run"
  /\ sessionsWriter = t
  /\ sessionsWriter' = NoTask
  /\ LET sid == request[t].session_id
         vm == execution_sessions[sid].vm_instance
         out == CkbExecute(vm)
     IN IF out.kind = "Err"
        THEN /\ Return(t, ErrResult("VmError"))
             /\ UNCHANGED <<execution_sessions, execResult>>
        ELSE /\ execResult' = [execResult EXCEPT ![t] =
                  [success |-> out.success, error |-> out.error]]
             /\ execution_sessions' = [execution_sessions EXCEPT ![sid].status =
                  IF out.success THEN Completed
                  ELSE Failed(IF out.error = "" THEN UnknownError ELSE out.error)]
             /\ Goto(t, "sync_out")
  /\ UNCHANGED notMgrVars
  /\ UNCHANGED <<locked_objects, insertedBy, locksReaders, request, startedDuring,
                 pendingUpdates, txCalls>>

\* anyhow!("Dry run failed: {}", ...)
DryRunFailed == "Dry run failed"

\* extract_modified_objects / extract_created_objects: both return vec![]
ExtractModifiedObjects(output) == << >>
ExtractCreatedObjects(output) == << >>

\* Step 5, head of sync_results_to_mainnet: a failed run is skipped; for a
\* successful one the modified objects are extracted from the output (none,
\* as extract_modified_objects stands) and synced one by one.  With nothing
\* to sync step 6 follows, or the return when there is nothing to unlock.
SyncResultsToMainnet(t) ==
  /\ pc[t] = "sync_out"
  /\ LET mods == IF execResult[t].success THEN ExtractModifiedObjects(<< >>) ELSE << >>
     IN /\ pendingUpdates' = [pendingUpdates EXCEPT ![t] = mods]
        /\ IF mods # << >>
           THEN Goto(t, "sync_tx")
           ELSE IF request[t].shared_objects = << >>
           THEN Return(t, OkResult(request[t].session_id, execResult[t].success,
                                   execResult[t].error))
           ELSE Goto(t, "unlock")
  /\ UNCHANGED notMgrVars
  /\ UNCHANGED <<locked_objects, insertedBy, execution_sessions, locksReaders,
                 sessionsWriter, request, execResult, startedDuring, txCalls>>

\* Step 5, one turn of the loop over the modified objects:
\* build_and_execute_update_transaction builds the Move call, dry-runs it and
\* returns a mock hash.  An Err of the adapter, or a dry-run status other than
\* "success", leaves execute_offchain through `?`.  Nothing here touches the
\* stored session, and nothing calls the adapter's execute_transaction.
BuildAndExecuteUpdateTransaction(t) ==
  /\ pc[t] = "sync_tx"
  /\ \/ /\ txCalls' = txCalls \cup {"build_move_call_transaction"}
        /\ Return(t, ErrResult("StateFetchError"))
        /\ UNCHANGED pendingUpdates
     \/ /\ txCalls' = txCalls \cup {"build_move_call_transaction", "dry_run_transaction"}
        /\ \/ /\ Return(t, ErrResult("StateFetchError"))
              /\ UNCHANGED pendingUpdates
           \/ /\ Return(t, ErrResult(DryRunFailed))
              /\ UNCHANGED pendingUpdates
           \/ /\ pendingUpdates' = [pendingUpdates EXCEPT ![t] = Tail(@)]
              /\ IF Len(pendingUpdates[t]) > 1
                 THEN UNCHANGED <<pc, idx, result, failedAt>>
                 ELSE Goto(t, "unlock")
  /\ UNCHANGED notMgrVars
  /\ UNCHANGED <<locked_objects, insertedBy, execution_sessions, locksReaders,
                 sessionsWriter, request, execResult, startedDuring>>

\* Step 6, one turn of the loop of unlock_mainnet_objects: remove the key,
\* whoever inserted it; after the last one execute_offchain returns Ok.
UnlockObject(t) ==
  /\ pc[t] = "unlock"
  /\ LocksWritable(t)
  /\ LET objs == request[t].shared_objects
         obj == objs[idx[t]]
     IN /\ locked_objects' = MapRemove(locked_objects, obj)
        /\ insertedBy' = MapRemove(insertedBy, obj)
        /\ IF idx[t] < Len(objs)
           THEN /\ idx' = [idx EXCEPT ![t] = idx[t] + 1]
                /\ UNCHANGED <<pc, result, failedAt>>
           ELSE Return(t, OkResult(request[t].session_id, execResult[t].success,
                                   execResult[t].error))
  /\ UNCHANGED notMgrVars
  /\ UNCHANGED <<execution_sessions, locksReaders, sessionsWriter,
                 request, execResult, startedDuring,
                 pendingUpdates, txCalls>>

Next ==
  \E t \in Tasks :
    \/ Submit(t)
    \/ LockObject(t)
    \/ CreateExecutionSession(t)
    \/ SyncStatus(t)
    \/ SyncAcquire(t)
    \/ SyncLoad(t)
    \/ ExecStatus(t)
    \/ ExecBegin(t)
    \/ ExecRun(t)
    \/ SyncResultsToMainnet(t)
    \/ UnlockObject(t)

Spec == Init /\ [][Next]_vars

\* ---------------------------------------------------------------------
\* The update path of step 5 on its own.  extract_modified_objects returns
\* no object, so Spec never enters the loop of sync_results_to_mainnet;
\* here a call starts at that loop, after a successful step 4, with a
\* non-empty list of modified objects as its input.
ModifiedLists(objs) ==
  {m \in UNION {[1..n -> Range(objs)] : n \in 1..MaxModified} : TRUE}

InitSyncOut ==
  \E req \in {r \in Requests : r.shared_objects # << >>} :
    \E mods \in ModifiedLists(req.shared_objects) :
      /\ locked_objects = [o \in Range(req.shared_objects) |-> LockedObject(o)]
      /\ insertedBy = [o \in Range(req.shared_objects) |-> 1]
      /\ execution_sessions =
           [sid \in {req.session_id} |-> [NewSession(req) EXCEPT !.status = Completed]]
      /\ locksReaders = {}
      /\ sessionsWriter = NoTask
      /\ pc = [t \in Tasks |-> IF t = 1 THEN "sync_tx" ELSE "idle"]
      /\ request = [t \in Tasks |-> IF t = 1 THEN req ELSE NoRequest]
      /\ idx = [t \in Tasks |-> IF t = 1 THEN 1 ELSE 0]
      /\ execResult = [t \in Tasks |-> IF t = 1 THEN [success |-> TRUE, error |-> ""] ELSE NoExec]
      /\ result = [t \in Tasks |-> NoResult]
      /\ failedAt = [t \in Tasks |-> 0]
      /\ startedDuring = [t \in Tasks |-> {}]
      /\ pendingUpdates = [t \in Tasks |-> IF t = 1 THEN mods ELSE << >>]
      /\ txCalls = {}
      /\ complete_vm = NewVm
      /\ vmOut = NoVmOut
      /\ vmCalls = 0
      /\ vmSnapshot = NoSnapshot
      /\ snapVm = NewVm
      /\ SchedulerIdle
      /\ CacheIdle
      /\ PredictIdle
      /\ ValidatorIdle
      /\ AdaptiveIdle
      /\ PluginIdle
      /\ ZeroCopyIdle
      /\ CounterIdle
      /\ LocksIdle

NextSyncOut ==
  \E t \in Tasks :
    \/ BuildAndExecuteUpdateTransaction(t)
    \/ UnlockObject(t)

SpecSyncOut == InitSyncOut /\ [][NextSyncOut]_vars

\* ---------------------------------------------------------------------
\* One CompleteCkbVmInstance behind the VmInstance trait, called in any
\* order, at most MaxVmCalls times.
VmCall(name, code, input, snapshot, r) ==
  /\ vmCalls' = vmCalls + 1
  /\ complete_vm' = r.vm
  /\ vmOut' = [call |-> name, code |-> code, input |-> input,
               snapshot |-> snapshot, kind |-> r.kind, err |-> r.err,
               stop |-> r.stop,
               result |-> IF name = "execute" /\ r.kind = "Ok"
                            THEN ExtractResult(r.vm) ELSE NoVmResult,
               before |-> complete_vm]

\* CompleteCkbVmInstance::new: another instance takes the place of this one
VmNew ==
  /\ vmCalls < MaxVmCalls
  /\ VmCall("new", << >>, << >>, NoSnapshot, VmOk(NewVm))
  /\ UNCHANGED <<vmSnapshot, snapVm>>
  /\ UNCHANGED notVmVars

VmLoadCode ==
  /\ vmCalls < MaxVmCalls
  /\ \E code \in Codes :
       VmCall("load_code", code, << >>, NoSnapshot,
              CompleteLoadCode(complete_vm, code))
  /\ UNCHANGED <<vmSnapshot, snapVm>>
  /\ UNCHANGED notVmVars

VmExecute ==
  /\ vmCalls < MaxVmCalls
  /\ \E input \in Inputs :
       VmCall("execute", << >>, input, NoSnapshot,
              CompleteExecute(complete_vm, input))
  /\ UNCHANGED <<vmSnapshot, snapVm>>
  /\ UNCHANGED notVmVars

VmSetLimits ==
  /\ vmCalls < MaxVmCalls
  /\ \E limits \in LimitsPool :
       VmCall("set_limits", << >>, << >>, NoSnapshot,
              VmOk([complete_vm EXCEPT !.limits = limits]))
  /\ UNCHANGED <<vmSnapshot, snapVm>>
  /\ UNCHANGED notVmVars

VmTakeSnapshot ==
  /\ vmCalls < MaxVmCalls
  /\ vmSnapshot' = CompleteSnapshot(complete_vm)
  /\ snapVm' = complete_vm
  /\ VmCall("snapshot", << >>, << >>, vmSnapshot', VmOk(complete_vm))
  /\ UNCHANGED notVmVars

VmRestore ==
  /\ vmCalls < MaxVmCalls
  /\ \E snapshot \in ({vmSnapshot} \ {NoSnapshot})
                         \cup {CkbInstanceSnapshot, ForeignSnapshot} :
       VmCall("restore", << >>, << >>, snapshot,
              CompleteRestore(complete_vm, snapshot))
  /\ UNCHANGED <<vmSnapshot, snapVm>>
  /\ UNCHANGED notVmVars

NextVm ==
  \/ VmNew
  \/ VmLoadCode
  \/ VmExecute
  \/ VmSetLimits
  \/ VmTakeSnapshot
  \/ VmRestore

SpecVm == Init /\ [][NextVm]_vars

\* ---------------------------------------------------------------------
\* A ParallelScheduler built without the adaptive scheduler
\* (enable_adaptive_scheduling = false), given one batch.
\* ParallelScheduler::new
SchedulerNew ==
  /\ schedPc = "none"
  /\ \E st \in StrategyTypes : strategy' = st
  /\ schedPc' = "ready"
  /\ UNCHANGED <<transactions, conflict_graph, execution_plan, batch_result>>
  /\ UNCHANGED notSchedVars

\* ParallelScheduler::submit_batch
SubmitBatch ==
  /\ schedPc = "ready"
  /\ \E txs \in Batches :
       LET graph == Analyze(txs)
           plan == PlanExecution(strategy, txs, graph)
           results == ExecuteParallel(plan)
       IN /\ transactions' = txs
          /\ conflict_graph' = graph
          /\ execution_plan' = plan
          /\ batch_result' =
               [transaction_results |-> results,
                execution_stats |->
                  [total_transactions |-> Len(txs),
                   successful_transactions |-> CountSuccess(results, TRUE),
                   failed_transactions |-> CountSuccess(results, FALSE),
                   parallel_efficiency |-> CalculateParallelEfficiency(results),
                   conflicts_detected |-> Len(graph.edges)]]
  /\ schedPc' = "done"
  /\ UNCHANGED strategy
  /\ UNCHANGED notSchedVars

NextSched ==
  \/ SchedulerNew
  \/ SubmitBatch

SpecSched == Init /\ [][NextSched]_vars

\* ================================================================ claims
InFlight(t) == pc[t] \notin {"idle", "done"}

\* the objects a call in flight has inserted in step 1 and not yet removed
\* in step 6
Holds(t) ==
  LET objs == request[t].shared_objects
  IN CASE pc[t] = "lock" -> {objs[i] : i \in 1..(idx[t] - 1)}
       [] pc[t] = "unlock" -> {objs[i] : i \in idx[t]..Len(objs)}
       [] pc[t] \in {"idle", "done"} -> {}
       [] OTHER -> Range(objs)

\* the call is past step 1 and has not returned
PastStep1(t) == InFlight(t) /\ StepOf(pc[t]) >= 2

\* the objects of a returned call that are still in the locks map with no
\* other call in flight holding them
LeftLocked(t) ==
  {o \in Range(request[t].shared_objects) :
     /\ o \in DOMAIN locked_objects
     /\ ~\E u \in Tasks \ {t} : o \in Holds(u)}

\* C1: the locks map gives mutual exclusion: of two requests in flight (of
\* different sessions) that name the same object, at most one is past step 1
\* (the other gets LockConflict in step 1).
C1_MutualExclusion ==
  \A t, u \in Tasks :
    (/\ t # u
     /\ request[t].session_id # request[u].session_id
     /\ PastStep1(t) /\ PastStep1(u))
      => Range(request[t].shared_objects) \cap Range(request[u].shared_objects) = {}

\* C2: after execute_offchain has returned, with Ok or with an Err of any
\* step, none of the request's objects is left in the locks map by it.
C2_NoLockAfterReturn ==
  \A t \in Tasks : pc[t] = "done" => LeftLocked(t) = {}

\* the reasons of an Err that come from the call's own adapter fetches or
\* from compiling its package
ExternalFailures == {"StateFetchError", "CompileError"}

\* C3: requests with distinct session ids that name the same shared objects
\* and run concurrently all return Ok with their own session id: no call
\* returns an Err on account of the other (the only Errs are failures of its
\* own adapter fetches or of the compile).
C3_SharedObjectsAllOk ==
  \A t \in Tasks :
    pc[t] = "done" =>
      IF result[t].kind = "Ok"
      THEN result[t].session_id = request[t].session_id
      ELSE result[t].error \in ExternalFailures

\* C3 witness: two calls with distinct session ids and the same two objects,
\* the second made while the first was in flight, have both returned Ok with
\* their own session ids.
C3_Witness ==
  \E t, u \in Tasks :
    /\ t # u
    /\ t \in startedDuring[u]
    /\ request[t].session_id # request[u].session_id
    /\ Len(request[t].shared_objects) = 2
    /\ request[t].shared_objects = request[u].shared_objects
    /\ pc[t] = "done" /\ pc[u] = "done"
    /\ result[t] = OkResult(request[t].session_id, TRUE, "")
    /\ result[u] = OkResult(request[u].session_id, TRUE, "")

\* C4: every entry of the locks map is held by exactly one call in flight.
C4_ExactlyOneHolder ==
  \A o \in DOMAIN locked_objects :
    Cardinality({t \in Tasks : o \in Holds(t)}) = 1

\* C5: when step 1 returns an Err part-way through the object list, the locks
\* this call inserted for the earlier objects are gone.
C5_NoPartialLock ==
  \A t \in Tasks :
    (pc[t] = "done" /\ failedAt[t] = 1) => LeftLocked(t) = {}

\* C6: when a step after step 1 fails, the caller gets an OffchainResult with
\* success = false and the reason in error, and the stored session's status
\* is Failed(reason).
C6_FailureReported ==
  \A t \in Tasks :
    (pc[t] = "done" /\ (failedAt[t] >= 2 \/ (result[t].kind = "Ok" /\ ~result[t].success)))
      => /\ result[t].kind = "Ok"
         /\ ~result[t].success
         /\ result[t].error # ""
         /\ request[t].session_id \in DOMAIN execution_sessions
         /\ execution_sessions[request[t].session_id].status = Failed(result[t].error)

\* C7: the status stored under a session id only moves forward along
\* Initializing -> ObjectsLocked -> StateSync -> Executing -> (Completed |
\* Failed), and never changes once it is Completed or Failed.
C7_StatusForward ==
  [][\A sid \in DOMAIN execution_sessions :
       LET old == execution_sessions[sid].status
           new == execution_sessions'[sid].status
       IN /\ StatusRank(new.tag) >= StatusRank(old.tag)
          /\ old.tag \in {"Completed", "Failed"} => new = old]_vars

\* the call's next await is execution_sessions.write(), and another call
\* holds that lock
WaitsForSessions(t) ==
  /\ pc[t] \in {"sync_status", "exec_status", "exec_begin"}
  /\ sessionsWriter \notin {NoTask, t}

\* C8: two sessions with disjoint object sets never wait on each other: while
\* one is inside its VM execution the other is not kept waiting.
C8_DisjointIndependent ==
  \A t, u \in Tasks :
    (/\ t # u
     /\ request[t].session_id # request[u].session_id
     /\ request[t].shared_objects # << >>
     /\ request[u].shared_objects # << >>
     /\ Range(request[t].shared_objects) \cap Range(request[u].shared_objects) = {}
     /\ pc[t] = "exec_run")
      => ~WaitsForSessions(u)

C10_SyncInKeepsProgram ==
  [][(/\ vmCalls' = vmCalls + 1
      /\ vmOut'.call = "load_code"
      /\ vmOut'.kind = "Ok"
      /\ vmOut'.code \in Layouts
      /\ complete_vm.code_loaded
      /\ complete_vm.code_cache \in Programs)
       => /\ complete_vm'.code_loaded
          /\ complete_vm'.code_cache = complete_vm.code_cache]_vars

\* ------------------------------------------------------------ scheduler
\* an edge of the conflict graph joins transactions i and j
EdgeBetween(i, j) ==
  \E k \in 1..Len(conflict_graph.edges) :
    conflict_graph.edges[k] \in {<<i, j>>, <<j, i>>}

\* the transaction of index i (from 0) of the batch
Tx(i) == transactions[i + 1]
TxIndices == 0..(Len(transactions) - 1)

\* C11: in the plan made for a batch, no two distinct transactions of one
\* parallel group are joined by an edge of the batch's conflict graph.
C11_GroupsConflictFree ==
  schedPc = "done" =>
    \A g \in 1..Len(execution_plan.parallel_groups) :
      \A i, j \in Range(execution_plan.parallel_groups[g]) :
        i # j => ~EdgeBetween(i, j)

\* T1 = {read A, write B}, T2 = {read C, write D}, T3 = {read B, write A}
ExampleBatch ==
  << [read_set |-> <<1>>, write_set |-> <<2>>],
     [read_set |-> <<3>>, write_set |-> <<4>>],
     [read_set |-> <<2>>, write_set |-> <<1>>] >>

\* C12: the account-set-parallel strategy colours greedily in submission
\* order; for T1, T2, T3 the plan is the two groups {T1, T2} then {T3}.
C12_GreedyExample ==
  (schedPc = "done" /\ strategy = "SolanaParallel" /\ transactions = ExampleBatch)
    => execution_plan.parallel_groups = << <<0, 1>>, <<2>> >>

\* the conflict of two transactions by their read and write sets
Conflicts(tx1, tx2) ==
  \/ Range(tx1.write_set) \cap Range(tx2.write_set) # {}
  \/ Range(tx1.write_set) \cap Range(tx2.read_set) # {}
  \/ Range(tx1.read_set) \cap Range(tx2.write_set) # {}

\* C13: the conflict graph has an edge between i and j (i # j) exactly when
\* their write sets meet or the write set of one meets the read set of the
\* other; has_conflict decides the same relation.
C13_EdgesExactlyConflicts ==
  schedPc = "done" =>
    \A i, j \in TxIndices :
      i # j => /\ EdgeBetween(i, j) <=> Conflicts(Tx(i), Tx(j))
               /\ HasConflict(Tx(i), Tx(j)) <=> Conflicts(Tx(i), Tx(j))

\* a batch with a pair that conflicts only by a write against a read, and a
\* pair that does not conflict
C13_Witness ==
  /\ schedPc = "done"
  /\ \E i, j \in TxIndices :
       /\ i # j
       /\ EdgeBetween(i, j)
       /\ Range(Tx(i).write_set) \cap Range(Tx(j).write_set) = {}
  /\ \E i, j \in TxIndices : i # j /\ ~EdgeBetween(i, j)

\* C14: parallel_efficiency is successful / total with total the number of
\* transactions submitted: a batch without conflicts and without a failed
\* transaction reports an efficiency above 0.
C14_EfficiencyOfCleanBatch ==
  LET stats == batch_result.execution_stats
  IN (/\ schedPc = "done"
      /\ transactions # << >>
      /\ conflict_graph.edges = << >>
      /\ stats.failed_transactions = 0)
       => /\ stats.parallel_efficiency.num > 0
          /\ stats.parallel_efficiency.num * stats.total_transactions
               = stats.successful_transactions * stats.parallel_efficiency.den

\* C15: an empty batch gives a plan with zero groups, a result with zero
\* transaction results, and parallel efficiency 0.
C15_EmptyBatch ==
  (schedPc = "done" /\ transactions = << >>)
    => /\ Len(execution_plan.parallel_groups) = 0
       /\ batch_result.transaction_results = << >>
       /\ batch_result.execution_stats.parallel_efficiency.num = 0

\* ------------------------------------------------- CompleteCkbVmInstance
\* the last call was an execute that returned an ExecutionResult
ExecuteReturned == vmOut.call = "execute" /\ vmOut.kind = "Ok"

\* C16: the program `addi a0, zero, 5; addi a1, zero, 3; add a0, a0, a1;
\* ebreak`, loaded and executed on an empty input, ends with a0 = 8,
\* cycles-used = 4 and success = true.
C16_TestProgramResult ==
  (/\ ExecuteReturned
   /\ complete_vm.code_cache = TestProgram
   /\ vmOut.input = << >>
   /\ vmOut.before.limits = DefaultLimits
   /\ vmOut.before.cycle_count = 0
   /\ vmOut.before.registers = InitRegisters)
    => /\ complete_vm.registers[10] = W64(8)
       /\ vmOut.result.cycles_used = 4
       /\ vmOut.result.success

C18_CyclesWithinLimit ==
  /\ ExecuteReturned => vmOut.result.cycles_used <= complete_vm.limits.max_cycles
  /\ (vmOut.call = "execute" /\ vmOut.err = "ResourceLimitExceeded: Max cycles exceeded")
       => complete_vm.cycle_count > complete_vm.limits.max_cycles

\* an execute that ends exactly at a limit set by set_limits
C18_Witness ==
  /\ ExecuteReturned
  /\ complete_vm.limits # DefaultLimits
  /\ vmOut.result.cycles_used = complete_vm.limits.max_cycles

\* C19: when the program counter leaves the code without an EBREAK having
\* been executed, execute returns an error, not an ExecutionResult.
C19_RunOffEndAborts ==
  ExecuteReturned => vmOut.stop

\* the four components a snapshot holds
Snapshotted(m) ==
  [registers |-> m.registers, cycle_count |-> m.cycle_count,
   memory_size |-> m.memory_size, code_loaded |-> m.code_loaded]

\* the last call was a restore of the instance's own last snapshot
RestoredOwn ==
  vmOut.call = "restore" /\ vmOut.kind = "Ok" /\ vmOut.snapshot = vmSnapshot

\* C20: restoring a snapshot taken in state S, at once or after further
\* calls, returns registers, cycle count, memory size and load state to
\* their values in S.
C20_RestoreReturnsToSnapshot ==
  RestoredOwn => Snapshotted(complete_vm) = Snapshotted(snapVm)

\* a restore after an execute that had changed the cycle count and a0
C20_Witness ==
  /\ RestoredOwn
  /\ vmOut.before.cycle_count # snapVm.cycle_count
  /\ vmOut.before.registers # snapVm.registers
  /\ vmOut.before.code_cache = snapVm.code_cache

\* ------------------------------------------------------- CompilationCache
\* a get that returns what the persistent store holds without putting it
\* into the LRU
CacheGetResultNoPopulate(mem, disk, key) ==
  IF LruHas(mem, key)
  THEN [kind |-> "Some", value |-> LruValue(mem, key), tier |-> "memory",
        memory |-> LruGet(mem, key)]
  ELSE IF key \in DOMAIN disk
  THEN LET contract == DeserializeContract(disk[key])
       IN IF contract.ok
          THEN [kind |-> "Some", value |-> contract.val, tier |-> "disk",
                memory |-> mem]
          ELSE [kind |-> "Err", value |-> NoContract, tier |-> "",
                memory |-> mem]
  ELSE [kind |-> "None", value |-> NoContract, tier |-> "", memory |-> mem]

\* CompilationCache::get on the tiers mem and disk: what it returns and the
\* memory tier it leaves
CacheGetResult(mem, disk, key) ==
  IF LruHas(mem, key)
  THEN [kind |-> "Some", value |-> LruValue(mem, key), tier |-> "memory",
        memory |-> LruGet(mem, key)]
  ELSE IF key \in DOMAIN disk
  THEN LET contract == DeserializeContract(disk[key])
       IN IF contract.ok
          THEN [kind |-> "Some", value |-> contract.val, tier |-> "disk",
                memory |-> LruPut(mem, key, contract.val)]
          ELSE [kind |-> "Err", value |-> NoContract, tier |-> "",
                memory |-> mem]
  ELSE [kind |-> "None", value |-> NoContract, tier |-> "", memory |-> mem]

CacheGet(key) ==
  /\ LET got == CacheGetResult(memory_cache, disk_cache, key)
     IN /\ memory_cache' = got.memory
        /\ cacheOut' = [call |-> "get", key |-> key, kind |-> got.kind,
                        value |-> got.value, tier |-> got.tier,
                        compiled |-> FALSE]
  /\ UNCHANGED <<disk_cache, cacheStored>>
  /\ UNCHANGED notCacheVars

\* CompilationCache::put: serialize, write the persistent store, then the LRU
CachePut(key, contract, order) ==
  /\ disk_cache' = MapInsert(disk_cache, key,
                             SerializeContract(contract, order))
  /\ memory_cache' = LruPut(memory_cache, key, contract)
  /\ cacheStored' = [cacheStored EXCEPT ![key] = contract]
  /\ cacheOut' = [call |-> "put", key |-> key, kind |-> "Ok",
                  value |-> contract, tier |-> "", compiled |-> FALSE]
  /\ UNCHANGED notCacheVars

\* CompilationCache::remove
CacheRemove(key) ==
  /\ disk_cache' = MapRemove(disk_cache, key)
  /\ memory_cache' = LruWithout(memory_cache, key)
  /\ cacheStored' = [cacheStored EXCEPT ![key] = NoContract]
  /\ cacheOut' = [NoCacheOut EXCEPT !.call = "remove", !.key = key,
                                    !.kind = "Ok"]
  /\ UNCHANGED notCacheVars

\* CompilationCache::clear empties the LRU and leaves the persistent store
CacheClear ==
  /\ memory_cache' = << >>
  /\ cacheOut' = [NoCacheOut EXCEPT !.call = "clear", !.kind = "Ok"]
  /\ UNCHANGED <<disk_cache, cacheStored>>
  /\ UNCHANGED notCacheVars

\* CodeLoader::load_contract of a contract the default compiler handles, at
\* the time now
LoadContract(meta, now) ==
  /\ LET cache_key == GenerateCacheKey(meta)
         cached == CacheGetResult(memory_cache, disk_cache, cache_key)
         compiled == DefaultCompile(meta, now)
     IN IF cached.kind = "Err"
        THEN /\ cacheOut' = [NoCacheOut EXCEPT !.call = "load_contract",
                               !.key = cache_key, !.kind = "Err"]
             /\ UNCHANGED <<memory_cache, disk_cache, cacheStored>>
        ELSE IF cached.kind = "Some"
        THEN /\ memory_cache' = cached.memory
             /\ cacheOut' = [call |-> "load_contract", key |-> cache_key,
                             kind |-> "Ok", value |-> cached.value,
                             tier |-> cached.tier, compiled |-> FALSE]
             /\ UNCHANGED <<disk_cache, cacheStored>>
        ELSE /\ disk_cache' = MapInsert(disk_cache, cache_key,
                                SerializeContract(compiled, << >>))
             /\ memory_cache' = LruPut(memory_cache, cache_key, compiled)
             /\ cacheStored' = [cacheStored EXCEPT ![cache_key] = compiled]
             /\ cacheOut' = [call |-> "load_contract", key |-> cache_key,
                             kind |-> "Ok", value |-> compiled,
                             tier |-> "compile", compiled |-> TRUE]
  /\ UNCHANGED notCacheVars

NextCache ==
  \/ \E key \in CacheKeys : CacheGet(key)
  \/ \E key \in CacheKeys, contract \in CompiledContracts :
       \E order \in IterationOrders(contract.metadata.exports) :
         CachePut(key, contract, order)
  \/ \E key \in CacheKeys : CacheRemove(key)
  \/ CacheClear
  \/ \E meta \in Metas, now \in Timestamps : LoadContract(meta, now)

\* the compilation cache and the loader on top of it, one call at a time
SpecCache == Init /\ [][NextCache]_vars

\* ------------------------------------------------ claims: CompilationCache
\* C21: after put(key, A), get(key) returns Some contract equal to A, from
\* the memory tier or re-read from the persistent tier, whose bytes under the
\* key are a serialization of A that deserializes to A
C21_PutThenGet ==
  /\ (cacheOut.call = "get" /\ cacheStored[cacheOut.key] # NoContract)
       => /\ cacheOut.kind = "Some"
          /\ cacheOut.tier \in {"memory", "disk"}
          /\ cacheOut.value = cacheStored[cacheOut.key]
  /\ \A key \in CacheKeys :
       cacheStored[key] # NoContract
         => /\ key \in DOMAIN disk_cache
            /\ \E order \in IterationOrders(cacheStored[key].metadata.exports) :
                 disk_cache[key] = SerializeContract(cacheStored[key], order)
            /\ DeserializeContract(disk_cache[key]).ok
            /\ DeserializeContract(disk_cache[key]).val = cacheStored[key]
\* a get that re-read the contract with two exports from the persistent tier
C21_Witness ==
  /\ cacheOut.call = "get"
  /\ cacheOut.tier = "disk"
  /\ cacheOut.value = ExportingContract
  /\ cacheStored[cacheOut.key] = ExportingContract

\* C22: load_contract looks in the memory LRU, then in the persistent store,
\* then compiles: a hit of the persistent store is in the LRU when the call
\* returns, a fresh compile is in the persistent store and in the LRU when the
\* call returns, the pipeline runs only when neither tier holds the key, and a
\* key leaves the persistent store only by remove
C22_LookupOrder ==
  [][/\ cacheOut'.call = "load_contract"
       => LET key == cacheOut'.key
              stored == DeserializeContract(disk_cache'[key])
          IN /\ cacheOut'.kind = "Ok"
             /\ cacheOut'.tier = (IF LruHas(memory_cache, key) THEN "memory"
                                  ELSE IF key \in DOMAIN disk_cache THEN "disk"
                                  ELSE "compile")
             /\ cacheOut'.compiled = (cacheOut'.tier = "compile")
             /\ cacheOut'.tier = "memory"
                  => cacheOut'.value = LruValue(memory_cache, key)
             /\ cacheOut'.tier = "disk"
                  => /\ disk_cache' = disk_cache
                     /\ cacheOut'.value = DeserializeContract(disk_cache[key]).val
             /\ LruHas(memory_cache', key)
             /\ LruValue(memory_cache', key) = cacheOut'.value
             /\ key \in DOMAIN disk_cache'
             /\ stored.ok /\ stored.val = cacheOut'.value
     /\ \A key \in DOMAIN disk_cache \ DOMAIN disk_cache' :
          cacheOut'.call = "remove" /\ cacheOut'.key = key]_vars
\* a load_contract served from the persistent store, after the LRU dropped the
\* contract an earlier load_contract had compiled
C22_Witness ==
  /\ cacheOut.call = "load_contract"
  /\ cacheOut.tier = "disk"
  /\ ~cacheOut.compiled
  /\ cacheOut.value.risc_v_code = PlaceholderRiscv
  /\ LruHas(memory_cache, cacheOut.key)

\* ----------------------------------------------- PredictiveExecutionEngine
\* a second passes
PredictTick ==
  /\ predNow < MaxNow
  /\ predNow' = predNow + 1
  /\ UNCHANGED <<pre_results, predState, predOut>>
  /\ UNCHANGED notPredictVars

\* the chain moves on to its next block
PredictNextBlock ==
  /\ predState.block_number < NumBlocks
  /\ predState' = [block_number |-> predState.block_number + 1]
  /\ UNCHANGED <<pre_results, predNow, predOut>>
  /\ UNCHANGED notPredictVars

\* steps 3 and 4 of predict_and_pre_execute for the paths path_ids:
\* execute_predicted_path on the current state for each, then
\* cache_pre_execution_results
CachePreExecutionResults(path_ids) ==
  /\ path_ids # {} /\ Cardinality(path_ids) <= MaxResults
  /\ LET inserted ==
           [key \in DOMAIN pre_results \cup {FromPathId(p) : p \in path_ids} |->
              IF \E p \in path_ids : FromPathId(p) = key
              THEN ExecutePredictedPath(key, predState, predNow)
              ELSE pre_results[key]]
     IN IF Cardinality(DOMAIN inserted) > CacheSizeLimit
        THEN \E gone \in EvictOldestPredictions(inserted) :
               /\ pre_results' = [key \in DOMAIN inserted \ gone |->
                                    inserted[key]]
               /\ predOut' = [NoPredOut EXCEPT
                                !.call = "cache_pre_execution_results",
                                !.kind = "Ok", !.inserted = inserted,
                                !.evicted = gone]
        ELSE /\ pre_results' = inserted
             /\ predOut' = [NoPredOut EXCEPT
                              !.call = "cache_pre_execution_results",
                              !.kind = "Ok", !.inserted = inserted]
  /\ UNCHANGED <<predNow, predState>>
  /\ UNCHANGED notPredictVars

\* predict_and_pre_execute from its step 2 on, for the predictions its step 1
\* (predict_next_transactions) hands over: optimize_execution_paths,
\* execute_predicted_path on the current state for each path, then
\* cache_pre_execution_results
PredictAndPreExecuteTransactions(predictions) ==
  /\ LET optimized_paths == OptimizeExecutionPaths(predictions)
         path_ids == {optimized_paths[i].path_id : i \in DOMAIN optimized_paths}
         inserted ==
           [key \in DOMAIN pre_results \cup {FromPathId(p) : p \in path_ids} |->
              IF \E p \in path_ids : FromPathId(p) = key
              THEN ExecutePredictedPath(key, predState, predNow)
              ELSE pre_results[key]]
         out == [NoPredOut EXCEPT !.call = "predict_and_pre_execute",
                                  !.kind = "Ok", !.at = predNow,
                                  !.inserted = inserted,
                                  !.predictions = predictions]
     IN IF Cardinality(DOMAIN inserted) > CacheSizeLimit
        THEN \E gone \in EvictOldestPredictions(inserted) :
               /\ pre_results' = [key \in DOMAIN inserted \ gone |->
                                    inserted[key]]
               /\ predOut' = [out EXCEPT !.evicted = gone]
        ELSE /\ pre_results' = inserted
             /\ predOut' = out
  /\ UNCHANGED <<predNow, predState>>
  /\ UNCHANGED notPredictVars

\* try_use_pre_execution
TryUsePreExecution(actual_transaction) ==
  /\ LET prediction_key == FromTransaction(actual_transaction)
         hit == /\ prediction_key \in DOMAIN pre_results
                /\ IsPreExecutionValid(pre_results[prediction_key], predNow)
     IN predOut' = [NoPredOut EXCEPT
                      !.call = "try_use_pre_execution",
                      !.key = prediction_key,
                      !.kind = IF hit THEN "Some" ELSE "None",
                      !.value = IF hit THEN pre_results[prediction_key]
                                ELSE NoPreResult,
                      !.at = predNow, !.state = predState]
  /\ UNCHANGED <<pre_results, predNow, predState>>
  /\ UNCHANGED notPredictVars

NextPredict ==
  \/ PredictTick
  \/ PredictNextBlock
  \/ \E path_ids \in SUBSET PathIds : CachePreExecutionResults(path_ids)
  \/ \E predictions \in PredictionLists :
       PredictAndPreExecuteTransactions(predictions)
  \/ \E tx \in PredictedTransactions : TryUsePreExecution(tx)

\* the prediction cache, fed with paths a lookup can find
SpecPredict == Init /\ [][NextPredict]_vars

Exceeded ==
  /\ predOut.call = "cache_pre_execution_results"
  /\ Cardinality(DOMAIN predOut.inserted) > CacheSizeLimit
StartSecureSession(object_id, now, committed_at) ==
  /\ current_session' = NewSecureSession(object_id, now, committed_at)
  /\ validatorOut' = [call |-> "start_secure_session", kind |-> "Ok",
                      value |-> <<"secure_session_", now>>]
  /\ UNCHANGED notValidatorVars

\* execute_verified_operation
ExecuteVerifiedOperation(operation_type, now) ==
  /\ current_session # NoSession => Len(current_session.operations) < MaxOperations
  /\ IF current_session = NoSession
     THEN /\ validatorOut' = [call |-> "execute_verified_operation",
                              kind |-> "Err", value |-> "No active session"]
          /\ UNCHANGED current_session
     ELSE LET operation ==
                NewVerifiedOperation(current_session, operation_type, now)
          IN /\ current_session' =
                  [current_session EXCEPT
                     !.operations = Append(@, operation)]
             /\ validatorOut' = [call |-> "execute_verified_operation",
                                 kind |-> "Ok", value |-> operation]
  /\ UNCHANGED notValidatorVars

\* handle_verification_challenge: the response is kept when there is a session
HandleVerificationChallenge(challenge_type, now, responded_at) ==
  /\ LET challenge_id == <<"challenge_", now>>
         response == [challenge_id |-> challenge_id,
                      challenge_type |-> challenge_type,
                      response_data |-> << >>, timestamp |-> responded_at]
     IN /\ current_session' =
             IF current_session = NoSession THEN NoSession
             ELSE [current_session EXCEPT
                     !.challenge_responses =
                        MapInsert(@, challenge_id, response)]
        /\ validatorOut' = [call |-> "handle_verification_challenge",
                            kind |-> "Ok", value |-> response]
  /\ UNCHANGED notValidatorVars

\* finalize_secure_session takes the session; consensus is always unanimous
FinalizeSecureSession ==
  /\ IF current_session = NoSession
     THEN validatorOut' = [call |-> "finalize_secure_session", kind |-> "Err",
                           value |-> "No active session to finalize"]
     ELSE validatorOut' =
            [call |-> "finalize_secure_session", kind |-> "Ok",
             value |-> [session_id |-> current_session.session_id,
                        verified_operations |->
                          Len(current_session.operations),
                        consensus_achieved |-> TRUE,
                        fraud_detected |-> FALSE,
                        final_state_hash |-> ZeroHash,
                        security_score |-> 100]]
  /\ current_session' = NoSession
  /\ UNCHANGED notValidatorVars

NextValidator ==
  \/ \E object_id \in ValidatorObjects, now \in Millis, committed_at \in Millis :
       StartSecureSession(object_id, now, committed_at)
  \/ \E operation_type \in OperationTypes, now \in Millis :
       ExecuteVerifiedOperation(operation_type, now)
  \/ \E challenge_type \in ChallengeTypes, now \in Millis,
        responded_at \in Millis :
       HandleVerificationChallenge(challenge_type, now, responded_at)
  \/ FinalizeSecureSession

SpecValidator == Init /\ [][NextValidator]_vars

\* ---------------------------------- claims: AntiFraudEphemeralValidator
IsPrefix(s, t) == Len(s) <= Len(t) /\ SubSeq(t, 1, Len(s)) = s
\* C25: while a session is open, every call other than finalize leaves its
\* log as it was or longer by the operation executed: no recorded operation
\* is removed, replaced or reordered by start, execute or challenge
C25_LogAppendOnly ==
  [][(current_session # NoSession
        /\ validatorOut'.call # "finalize_secure_session")
       => /\ current_session' # NoSession
          /\ IsPrefix(current_session.operations, current_session'.operations)
          /\ validatorOut'.call = "execute_verified_operation"
               => current_session'.operations =
                    Append(current_session.operations, validatorOut'.value)]_vars

\* ------------------------------------------------------- AdaptiveScheduler
\* select_optimal_strategy in a build that checks overflow or wraps
SelectOptimalStrategy(txs, build) ==
  /\ LET features == ExtractFeatures(txs, build)
         predictions == PredictAllStrategies(models, model_accuracy, features)
         optimal_strategy == SelectBest(predictions)
     IN IF features.kind = "Panic"
        THEN /\ adaptiveOut' = [NoAdaptiveOut EXCEPT
                                  !.call = "select_optimal_strategy",
                                  !.kind = "Panic", !.transactions = txs]
             /\ UNCHANGED current_strategy
        ELSE /\ adaptiveOut' = [call |-> "select_optimal_strategy",
                                kind |-> "Ok",
                                transactions |-> txs, features |-> features,
                                predictions |-> predictions,
                                strategy |-> optimal_strategy]
             /\ current_strategy' = optimal_strategy
  /\ UNCHANGED <<models, training_data, model_accuracy>>
  /\ UNCHANGED notAdaptiveVars

\* record_performance: update_model adds the example and retrains; examples
\* beyond MinTrainingSamples change nothing that is modelled
RecordPerformance(strategy_type) ==
  /\ training_data[strategy_type] < MinTrainingSamples
  /\ training_data' = [training_data EXCEPT ![strategy_type] = @ + 1]
  /\ models' = MapInsert(models, strategy_type, DefaultForStrategy(strategy_type))
  /\ model_accuracy' =
       IF training_data'[strategy_type] < MinTrainingSamples THEN model_accuracy
       ELSE model_accuracy \cup {strategy_type}
  /\ adaptiveOut' = [NoAdaptiveOut EXCEPT !.call = "record_performance",
                                          !.kind = "Ok",
                                          !.strategy = strategy_type]
  /\ UNCHANGED current_strategy
  /\ UNCHANGED notAdaptiveVars

NextAdaptive ==
  \/ \E txs \in FeatureBatches, build \in Builds :
       SelectOptimalStrategy(txs, build)
  \/ \E strategy_type \in StrategyTypes : RecordPerformance(strategy_type)

SpecAdaptive == Init /\ [][NextAdaptive]_vars

\* C26: adaptive selection obtains a prediction for each of the three
\* strategies, from the default model for a strategy with fewer than 5
\* recorded samples (none included), and chooses the strategy over their
\* predicted tps: a strategy never run is still a candidate.
C26_EveryStrategyPredicted ==
  (adaptiveOut.call = "select_optimal_strategy" /\ adaptiveOut.kind = "Ok") =>
    /\ {adaptiveOut.predictions[i].strategy :
          i \in 1..Len(adaptiveOut.predictions)} = StrategyTypes
    /\ \A i \in 1..Len(adaptiveOut.predictions) :
         LET p == adaptiveOut.predictions[i]
         IN training_data[p.strategy] < MinTrainingSamples =>
              p.predicted_tps = ModelPredict(DefaultForStrategy(p.strategy),
                                             adaptiveOut.features)
    /\ \E i \in 1..Len(adaptiveOut.predictions) :
         /\ adaptiveOut.predictions[i].strategy = adaptiveOut.strategy
         /\ \A j \in 1..Len(adaptiveOut.predictions) :
              adaptiveOut.predictions[j].predicted_tps.num
                <= adaptiveOut.predictions[i].predicted_tps.num

\* the number of conflicting pairs of a batch
ConflictingPairs(txs) ==
  Cardinality({p \in (1..Len(txs)) \X (1..Len(txs)) :
                 p[1] < p[2] /\ HasConflict(txs[p[1]], txs[p[2]])})

\* C27: for a batch of n transactions conflict_density is the number of
\* conflicting pairs divided by n(n-1)/2, is 0 for a batch of fewer than 2
\* transactions (the empty batch included) and lies in [0,1]; feature
\* extraction never fails on such batches.
C27_ConflictDensity ==
  adaptiveOut.call = "select_optimal_strategy" =>
    LET n == Len(adaptiveOut.transactions)
        d == adaptiveOut.features.conflict_density
    IN /\ adaptiveOut.kind = "Ok"
       /\ d.den > 0 /\ 0 <= d.num /\ d.num <= d.den
       /\ n < 2 => d.num = 0
       /\ n >= 2 =>
            d.num * ((n * (n - 1)) \div 2)
              = ConflictingPairs(adaptiveOut.transactions) * d.den

\* ------------------------------------------------------------ PluginManager
\* load_plugin of a path at which the platform finds file
LoadPlugin(path, platform, file) ==
  /\ next_handle <= MaxHandles
  /\ IF ~IsSafePluginPath(path)
     THEN /\ pluginOut' = [NoPluginOut EXCEPT !.call = "load_plugin",
                             !.path = path, !.platform = platform,
                             !.kind = "Err"]
          /\ UNCHANGED <<plugins, next_handle>>
     ELSE IF file.kind # "Plugin" \/ ValidatePlugin(file) # "Ok"
     THEN /\ pluginOut' = [NoPluginOut EXCEPT !.call = "load_plugin",
                             !.path = path, !.platform = platform,
                             !.kind = "Err", !.library_opened = TRUE]
          /\ UNCHANGED <<plugins, next_handle>>
     ELSE /\ pluginOut' = [call |-> "load_plugin", path |-> path,
                           platform |-> platform, kind |-> "Ok",
                           library_opened |-> TRUE, handle |-> next_handle]
          /\ plugins' = MapInsert(plugins, next_handle,
                                  [path |-> path, name |-> file.name,
                                   version |-> file.version])
          /\ next_handle' = next_handle + 1
  /\ UNCHANGED notPluginVars

\* unload_plugin
UnloadPlugin(handle) ==
  /\ pluginOut' = [NoPluginOut EXCEPT !.call = "unload_plugin",
                     !.handle = handle,
                     !.kind = IF handle \in DOMAIN plugins THEN "Ok" ELSE "Err"]
  /\ plugins' = MapRemove(plugins, handle)
  /\ UNCHANGED next_handle
  /\ UNCHANGED notPluginVars

NextPlugin ==
  \/ \E path \in PluginPaths, platform \in Platforms, file \in PluginFiles :
       LoadPlugin(path, platform, file)
  \/ \E handle \in PluginHandles : UnloadPlugin(handle)

SpecPlugin == Init /\ [][NextPlugin]_vars

\* a load_plugin step of a path that fails the test given
RejectedLoad(unsafe) ==
  (pluginOut'.call = "load_plugin" /\ unsafe) =>
    /\ pluginOut'.kind = "Err"
    /\ ~pluginOut'.library_opened
    /\ plugins' = plugins

\* C28 as stated: load_plugin rejects, before it loads anything, every path
\* that contains ".." and every path whose extension is not the shared-library
\* suffix of the platform; the rejected load returns an error and leaves the
\* map of plugins unchanged.
C28_RejectsNonPlatformSuffix ==
  [][RejectedLoad(\/ Contains(pluginOut'.path, DotDot)
                  \/ ~EndsWith(pluginOut'.path, DllSuffix(pluginOut'.platform)))
    ]_vars

\* C28 amended: load_plugin rejects, before it loads anything, every path
\* that contains ".." and every path that ends in none of .so, .dylib and
\* .dll; the rejected load returns an error and leaves the map of plugins
\* unchanged.
C28_RejectsUnsafePath ==
  [][RejectedLoad(\/ Contains(pluginOut'.path, DotDot)
                  \/ /\ ~EndsWith(pluginOut'.path, SuffixSo)
                     /\ ~EndsWith(pluginOut'.path, SuffixDylib)
                     /\ ~EndsWith(pluginOut'.path, SuffixDll))]_vars

\* a load of ../p.so was rejected while a plugin is loaded
C28_Witness ==
  /\ pluginOut.call = "load_plugin"
  /\ pluginOut.path = <<".", ".", "/", "p">> \o SuffixSo
  /\ pluginOut.kind = "Err"
  /\ plugins # EmptyMap

\* -------------------------------------------------------- ZeroCopyStateSync
\* ZeroCopyStateSync::new with a configuration
ZeroCopyStateSyncNew(cow) ==
  /\ ~syncBuilt
  /\ syncBuilt' = TRUE
  /\ enable_cow' = cow
  /\ active_views' = EmptyMap
  /\ viewOut' = [NoViewOut EXCEPT !.call = "new", !.kind = "Ok"]
  /\ UNCHANGED notZeroCopyVars

\* map_onchain_state: an existing view of the root if the mirror has one,
\* else a new read-only view; version_map is never written, so the latest
\* version is 0
MapOnchainState(state_root) ==
  /\ syncBuilt
  /\ LET existing == FindViewByStateRoot(active_views, state_root)
     IN IF existing # {}
        THEN /\ \E existing_view \in existing :
                  viewOut' = [call |-> "map_onchain_state", kind |-> "Ok",
                              state_root |-> state_root, reused |-> TRUE,
                              view |-> existing_view]
             /\ UNCHANGED active_views
        ELSE /\ Cardinality(DOMAIN active_views) < MaxViews
             /\ LET view_id == CHOOSE id \in ViewIds : id \notin DOMAIN active_views
                    state_view == [view_id |-> view_id,
                                   state_root |-> state_root,
                                   mapped_regions |-> CreateMapping,
                                   access_mode |-> "ReadOnly",
                                   version |-> 0]
                IN /\ active_views' = MapInsert(active_views, view_id, state_view)
                   /\ viewOut' = [call |-> "map_onchain_state", kind |-> "Ok",
                                  state_root |-> state_root, reused |-> FALSE,
                                  view |-> state_view]
  /\ UNCHANGED <<enable_cow, syncBuilt>>
  /\ UNCHANGED notZeroCopyVars

\* create_writable_view of a view the synchronizer returned before
CreateWritableView(base_view_id) ==
  /\ syncBuilt
  /\ base_view_id \in DOMAIN active_views
  /\ LET base_view == active_views[base_view_id] IN
        IF ~enable_cow
        THEN /\ viewOut' = [NoViewOut EXCEPT !.call = "create_writable_view",
                              !.kind = "Err",
                              !.state_root = base_view.state_root]
             /\ UNCHANGED active_views
        ELSE /\ Cardinality(DOMAIN active_views) < MaxViews
             /\ LET view_id == CHOOSE id \in ViewIds : id \notin DOMAIN active_views
                    writable_view ==
                      [view_id |-> view_id,
                       state_root |-> base_view.state_root,
                       mapped_regions |-> CreateCowMapping(base_view.mapped_regions),
                       access_mode |-> "ReadWrite",
                       version |-> base_view.version + 1]
                IN /\ active_views' = MapInsert(active_views, view_id, writable_view)
                   /\ viewOut' = [call |-> "create_writable_view", kind |-> "Ok",
                                  state_root |-> base_view.state_root,
                                  reused |-> FALSE, view |-> writable_view]
  /\ UNCHANGED <<enable_cow, syncBuilt>>
  /\ UNCHANGED notZeroCopyVars

NextZeroCopy ==
  \/ \E cow \in BOOLEAN : ZeroCopyStateSyncNew(cow)
  \/ \E state_root \in StateRoots : MapOnchainState(state_root)
  \/ \E base_view_id \in ViewIds : CreateWritableView(base_view_id)

SpecZeroCopy == Init /\ [][NextZeroCopy]_vars

\* C29: map_onchain_state(root) returns a view of that state root whose
\* access mode is ReadOnly, also when it reuses an existing mapping and also
\* after a writable copy-on-write view of the same root was created.
C29_MappedViewReadOnly ==
  (viewOut.call = "map_onchain_state" /\ viewOut.kind = "Ok") =>
    /\ viewOut.view.state_root = viewOut.state_root
    /\ viewOut.view.access_mode = "ReadOnly"

\* -------------------------------------------------- CounterPredictiveEngine
RECURSIVE StoreAll(_, _)
\* PredictionCache::store of each result in turn
StoreAll(cache, results) ==
  IF results = << >> THEN cache
  ELSE StoreAll(MapInsert(cache,
                          CounterCacheKey(results[1].operation,
                                          results[1].before_value),
                          results[1]),
                Tail(results))

\* predict_and_pre_execute at the hour of the day given
PredictAndPreExecute(current_counter_value, current_hour) ==
  /\ LET predictions ==
           PredictNextOperations(AnalyzeCurrentPatterns, current_counter_value,
                                 current_hour)
         results ==
           Concat([i \in 1..Len(predictions) |->
                     IF predictions[i].confidence > ConfidenceThreshold
                     THEN <<PreExecuteOperation(predictions[i],
                                                current_counter_value,
                                                counterNow)>>
                     ELSE << >>])
     IN /\ prediction_cache' = StoreAll(prediction_cache, results)
        /\ counterOut' = [NoCounterOut EXCEPT
                            !.call = "predict_and_pre_execute",
                            !.value = current_counter_value,
                            !.predictions = predictions,
                            !.results = results]
  /\ predictedAt' = MapInsert(predictedAt, current_counter_value, counterNow)
  /\ UNCHANGED counterNow
  /\ UNCHANGED notCounterVars

\* handle_actual_operation
HandleActualOperation(user, op, current_counter_value) ==
  /\ LET key == CounterCacheKey(op, current_counter_value)
         hit == /\ key \in DOMAIN prediction_cache
                /\ counterNow - prediction_cache[key].cached_at < CacheValidSecs
         normal == ExecuteCounter(op, current_counter_value)
     IN counterOut' =
          [NoCounterOut EXCEPT
             !.call = "handle_actual_operation",
             !.value = current_counter_value,
             !.operation = op,
             !.cache_hit = hit,
             !.final_value = IF hit THEN prediction_cache[key].after_value
                             ELSE normal.value,
             !.gas_used = IF hit THEN prediction_cache[key].gas_used
                          ELSE normal.gas_used]
  /\ UNCHANGED <<prediction_cache, counterNow, predictedAt>>
  /\ UNCHANGED notCounterVars

\* a second passes
CounterTick ==
  /\ counterNow < MaxCounterNow
  /\ counterNow' = counterNow + 1
  /\ UNCHANGED <<prediction_cache, predictedAt, counterOut>>
  /\ UNCHANGED notCounterVars

NextCounter ==
  \/ \E v \in CounterValues, h \in Hours : PredictAndPreExecute(v, h)
  \/ \E user \in CounterUsers, op \in CounterOperations, v \in CounterValues :
       HandleActualOperation(user, op, v)
  \/ CounterTick

SpecCounter == Init /\ [][NextCounter]_vars

\* C30: after predict_and_pre_execute(v) has run, an Increment that arrives
\* at counter value v within the 5 seconds of validity is served from the
\* prediction cache (cache_hit) with final value v + 1.
C30_IncrementServedFromCache ==
  (/\ counterOut.call = "handle_actual_operation"
   /\ counterOut.operation = <<"Increment">>
   /\ counterOut.value \in DOMAIN predictedAt
   /\ counterNow - predictedAt[counterOut.value] < CacheValidSecs) =>
      /\ counterOut.cache_hit
      /\ counterOut.final_value = counterOut.value + 1

\* ------------------- execute_offchain and get_execution_stats on the locks
\* The lock operations of the two calls, in program order, one step from an
\* await to the next; what the maps hold is in Spec. An Err of a call to the
\* adapter, the loader or the VM leaves through `?` and drops the guards held.
LockGoto(p, next) ==
  /\ lockPc' = [lockPc EXCEPT ![p] = next]
  /\ lockIdx' = [lockIdx EXCEPT ![p] = 1]
\* the call returns
LockReturn(p) ==
  /\ lockPc' = [lockPc EXCEPT ![p] = "idle"]
  /\ lockIdx' = [lockIdx EXCEPT ![p] = 0]
\* the loop goes to its next object at `here`, or leaves to `next`
LockAdvance(p, here, next) ==
  IF lockIdx[p] < lockLen[p]
  THEN /\ lockPc' = [lockPc EXCEPT ![p] = here]
       /\ lockIdx' = [lockIdx EXCEPT ![p] = lockIdx[p] + 1]
  ELSE LockGoto(p, next)

\* execute_offchain is called with n shared objects
ExecuteOffchain(p, n) ==
  /\ lockPc[p] = "idle"
  /\ lockLen' = [lockLen EXCEPT ![p] = n]
  /\ LockGoto(p, IF n = 0 THEN "create" ELSE "lock")
  /\ UNCHANGED rwLocks
  /\ UNCHANGED notLockVars

\* lock_mainnet_objects, one object: the fetches, then locked_objects.write()
LockFetch(p) ==
  /\ lockPc[p] = "lock"
  /\ \/ /\ LockReturn(p)
        /\ UNCHANGED rwLocks
     \/ /\ rwLocks' = Enqueue(rwLocks, "locked_objects", p, "W")
        /\ lockPc' = [lockPc EXCEPT ![p] = "lock_wait"]
        /\ UNCHANGED lockIdx
  /\ UNCHANGED lockLen
  /\ UNCHANGED notLockVars

\* the write guard is granted; insert; the guard is dropped
LockInsert(p) ==
  /\ lockPc[p] = "lock_wait"
  /\ CanGrant(rwLocks, "locked_objects", p)
  /\ rwLocks' = GrantAndRelease(rwLocks, "locked_objects")
  /\ LockAdvance(p, "lock", "create")
  /\ UNCHANGED lockLen
  /\ UNCHANGED notLockVars

\* a statement `execution_sessions.write().await...` is reached at `here`
\* (before it the call may fail when `fails`)
SessionsWriteRequest(p, here, fails) ==
  /\ lockPc[p] = here
  /\ \/ /\ fails
        /\ LockReturn(p)
        /\ UNCHANGED rwLocks
     \/ /\ rwLocks' = Enqueue(rwLocks, "execution_sessions", p, "W")
        /\ lockPc' = [lockPc EXCEPT ![p] = here \o "_wait"]
        /\ UNCHANGED lockIdx
  /\ UNCHANGED lockLen
  /\ UNCHANGED notLockVars

\* create_execution_session: fetch, compile and load, then the insert
CreateSessionRequest(p) == SessionsWriteRequest(p, "create", TRUE)
CreateSessionInsert(p) ==
  /\ lockPc[p] = "create_wait"
  /\ CanGrant(rwLocks, "execution_sessions", p)
  /\ rwLocks' = GrantAndRelease(rwLocks, "execution_sessions")
  /\ LockGoto(p, "sync_status")
  /\ UNCHANGED lockLen
  /\ UNCHANGED notLockVars

\* sync_state_to_offchain: status := StateSync
SyncStatusRequest(p) == SessionsWriteRequest(p, "sync_status", FALSE)
SyncStatusSet(p) ==
  /\ lockPc[p] = "sync_status_wait"
  /\ CanGrant(rwLocks, "execution_sessions", p)
  /\ rwLocks' = GrantAndRelease(rwLocks, "execution_sessions")
  /\ LockGoto(p, IF lockLen[p] = 0 THEN "exec_status" ELSE "sync_obj")
  /\ UNCHANGED lockLen
  /\ UNCHANGED notLockVars

\* the loop: `if let Some(_) = self.locked_objects.read().await.get(id)`
SyncObjRequest(p) ==
  /\ lockPc[p] = "sync_obj"
  /\ rwLocks' = Enqueue(rwLocks, "locked_objects", p, "R")
  /\ lockPc' = [lockPc EXCEPT ![p] = "sync_obj_wait"]
  /\ UNCHANGED <<lockIdx, lockLen>>
  /\ UNCHANGED notLockVars
\* the read guard is granted: with the object in the map it is held for the
\* body of the if-let, else it is dropped and the loop goes on
SyncObjGet(p) ==
  /\ lockPc[p] = "sync_obj_wait"
  /\ CanGrant(rwLocks, "locked_objects", p)
  /\ \/ /\ rwLocks' = Grant(rwLocks, "locked_objects")
        /\ lockPc' = [lockPc EXCEPT ![p] = "sync_fetch"]
        /\ UNCHANGED lockIdx
     \/ /\ rwLocks' = GrantAndRelease(rwLocks, "locked_objects")
        /\ LockAdvance(p, "sync_obj", "exec_status")
  /\ UNCHANGED lockLen
  /\ UNCHANGED notLockVars
\* the body: the two fetches, then execution_sessions.write() with the read
\* guard of locked_objects still held
SyncFetch(p) ==
  /\ lockPc[p] = "sync_fetch"
  /\ \/ /\ rwLocks' = Release(rwLocks, "locked_objects", p)
        /\ LockReturn(p)
     \/ /\ rwLocks' = Enqueue(rwLocks, "execution_sessions", p, "W")
        /\ lockPc' = [lockPc EXCEPT ![p] = "sync_load_wait"]
        /\ UNCHANGED lockIdx
  /\ UNCHANGED lockLen
  /\ UNCHANGED notLockVars
\* the write guard is granted and held across load_code().await
SyncLoadAcquire(p) ==
  /\ lockPc[p] = "sync_load_wait"
  /\ CanGrant(rwLocks, "execution_sessions", p)
  /\ rwLocks' = Grant(rwLocks, "execution_sessions")
  /\ lockPc' = [lockPc EXCEPT ![p] = "sync_load"]
  /\ UNCHANGED <<lockIdx, lockLen>>
  /\ UNCHANGED notLockVars
\* load_code returned: both guards are dropped, on Ok and on Err
SyncLoadDone(p) ==
  /\ lockPc[p] = "sync_load"
  /\ rwLocks' = Release(Release(rwLocks, "execution_sessions", p),
                        "locked_objects", p)
  /\ \/ LockReturn(p)
     \/ LockAdvance(p, "sync_obj", "exec_status")
  /\ UNCHANGED lockLen
  /\ UNCHANGED notLockVars

\* execute_in_ckb_vm: status := Executing
ExecStatusRequest(p) == SessionsWriteRequest(p, "exec_status", FALSE)
ExecStatusSet(p) ==
  /\ lockPc[p] = "exec_status_wait"
  /\ CanGrant(rwLocks, "execution_sessions", p)
  /\ rwLocks' = GrantAndRelease(rwLocks, "execution_sessions")
  /\ LockGoto(p, "exec")
  /\ UNCHANGED lockLen
  /\ UNCHANGED notLockVars
\* `let mut vm_sessions = self.execution_sessions.write().await`
ExecRequest(p) == SessionsWriteRequest(p, "exec", TRUE)
ExecAcquire(p) ==
  /\ lockPc[p] = "exec_wait"
  /\ CanGrant(rwLocks, "execution_sessions", p)
  /\ rwLocks' = Grant(rwLocks, "execution_sessions")
  /\ lockPc' = [lockPc EXCEPT ![p] = "exec_run"]
  /\ UNCHANGED <<lockIdx, lockLen>>
  /\ UNCHANGED notLockVars
\* execute().await returned; the guard is dropped at the end of the function.
\* Step 5 takes no lock; then step 6, or the return
ExecDone(p) ==
  /\ lockPc[p] = "exec_run"
  /\ rwLocks' = Release(rwLocks, "execution_sessions", p)
  /\ \/ LockReturn(p)
     \/ IF lockLen[p] = 0 THEN LockReturn(p) ELSE LockGoto(p, "unlock")
  /\ UNCHANGED lockLen
  /\ UNCHANGED notLockVars

\* unlock_mainnet_objects, one object
UnlockRequest(p) ==
  /\ lockPc[p] = "unlock"
  /\ rwLocks' = Enqueue(rwLocks, "locked_objects", p, "W")
  /\ lockPc' = [lockPc EXCEPT ![p] = "unlock_wait"]
  /\ UNCHANGED <<lockIdx, lockLen>>
  /\ UNCHANGED notLockVars
UnlockRemove(p) ==
  /\ lockPc[p] = "unlock_wait"
  /\ CanGrant(rwLocks, "locked_objects", p)
  /\ rwLocks' = GrantAndRelease(rwLocks, "locked_objects")
  /\ IF lockIdx[p] < lockLen[p]
     THEN /\ lockPc' = [lockPc EXCEPT ![p] = "unlock"]
          /\ lockIdx' = [lockIdx EXCEPT ![p] = lockIdx[p] + 1]
     ELSE LockReturn(p)
  /\ UNCHANGED lockLen
  /\ UNCHANGED notLockVars

\* get_execution_stats is called: locked_objects.read().await
GetExecutionStats(p) ==
  /\ lockPc[p] = "idle"
  /\ rwLocks' = Enqueue(rwLocks, StatsOrder[1], p,
                        IF StatsOrder[1] = "pending_executions" THEN "W" ELSE "R")
  /\ lockPc' = [lockPc EXCEPT ![p] = "stats_wait"]
  /\ lockIdx' = [lockIdx EXCEPT ![p] = 1]
  /\ UNCHANGED lockLen
  /\ UNCHANGED notLockVars
\* a guard is granted: the next one is asked for, or, with all three, the
\* statistics are built and the guards dropped
StatsAcquire(p) ==
  /\ lockPc[p] = "stats_wait"
  /\ CanGrant(rwLocks, StatsOrder[lockIdx[p]], p)
  /\ LET granted == Grant(rwLocks, StatsOrder[lockIdx[p]])
         next == StatsOrder[lockIdx[p] + 1]
     IN IF lockIdx[p] < Len(StatsOrder)
        THEN /\ rwLocks' = Enqueue(granted, next, p,
                             IF next = "pending_executions" THEN "W" ELSE "R")
             /\ lockIdx' = [lockIdx EXCEPT ![p] = lockIdx[p] + 1]
             /\ UNCHANGED lockPc
        ELSE /\ rwLocks' = [l \in LockNames |-> Release(granted, l, p)[l]]
             /\ LockReturn(p)
  /\ UNCHANGED lockLen
  /\ UNCHANGED notLockVars

\* a step of caller p once its call is made
LockStep(p) ==
  \/ LockFetch(p) \/ LockInsert(p)
  \/ CreateSessionRequest(p) \/ CreateSessionInsert(p)
  \/ SyncStatusRequest(p) \/ SyncStatusSet(p)
  \/ SyncObjRequest(p) \/ SyncObjGet(p) \/ SyncFetch(p)
  \/ SyncLoadAcquire(p) \/ SyncLoadDone(p)
  \/ ExecStatusRequest(p) \/ ExecStatusSet(p)
  \/ ExecRequest(p) \/ ExecAcquire(p) \/ ExecDone(p)
  \/ UnlockRequest(p) \/ UnlockRemove(p)
  \/ StatsAcquire(p)

NextLocks ==
  \/ \E p \in Tasks, n \in 0..MaxSharedObjects : ExecuteOffchain(p, n)
  \/ \E p \in StatsCallers : GetExecutionStats(p)
  \/ \E p \in LockProcs : LockStep(p)

\* tokio polls every task that can go on, and the calls awaited return
SpecLocks ==
  Init /\ [][NextLocks]_vars /\ \A p \in LockProcs : WF_vars(LockStep(p))

\* caller p waits in the queue of lock l
WaitsFor(p, l) ==
  \E i \in 1..Len(rwLocks[l].queue) : rwLocks[l].queue[i][1] = p

\* C31: no interleaving of execute_offchain and get_execution_stats calls
\* deadlocks on the locks: every caller that waits for a lock of the manager
\* gets it in the end, the task that waits for the write lock of the sessions
\* map with a read guard of the locks map in its hand included.
C31_EveryWaiterAcquires ==
  \A p \in LockProcs : \A l \in LockNames : WaitsFor(p, l) ~> ~WaitsFor(p, l)

\* a task holds a read guard of locked_objects and waits for the write lock
\* of execution_sessions, which another caller holds
C31_Witness ==
  \E p \in Tasks :
    /\ p \in rwLocks["locked_objects"].readers
    /\ WaitsFor(p, "execution_sessions")
    /\ \/ rwLocks["execution_sessions"].writer \notin {NoTask, p}
       \/ rwLocks["execution_sessions"].readers # {}

\* ---------------------------------------------------------------------------
\* C32.  Step 6 removes only its own call's lock entries.

\* the step in which call t's unlock_mainnet_objects takes object o's entry
\* out of the locks map
UnlocksEntry(t, o) ==
  /\ pc[t] = "unlock"
  /\ <<pc'[t], idx'[t]>> # <<pc[t], idx[t]>>
  /\ o \in DOMAIN locked_objects
  /\ o \notin DOMAIN locked_objects'

\* C32: a call's step-6 unlock never removes an object's entry that another
\* call, still in flight, inserted: the entry it removes is one that this
\* call inserted itself, or one whose inserter has returned.
C32_UnlockRemovesOwnEntries ==
  [][\A t \in Tasks : \A o \in Objects :
       UnlocksEntry(t, o) =>
         \/ insertedBy[o] = t
         \/ ~InFlight(insertedBy[o])]_vars

\* ---------------------------------------------------------------------------
\* C33.  Sessions of returned requests do not stay in the sessions map.

\* ExecutionStats.active_sessions of get_execution_stats: sessions.len()
ActiveSessions == Cardinality(DOMAIN execution_sessions)

\* C33: once every submitted request has returned, with Ok or with Err, the
\* sessions map holds no entry and get_execution_stats reports
\* active_sessions = 0.
C33_NoSessionAfterReturn ==
  (\A t \in Tasks : ~InFlight(t)) =>
    /\ DOMAIN execution_sessions = {}
    /\ ActiveSessions = 0

\* ---------------------------------------------------------------------------
\* C34.  A request with a stored session's id leaves that session alone.

\* C34: when create_execution_session runs for a request whose session id is
\* already a key of the sessions map, the session stored under it (its VM
\* instance, its status, its locked-object list) is the same after the step.
C34_StoredSessionKept ==
  [][\A t \in Tasks : \A sid \in DOMAIN execution_sessions :
       (pc[t] = "create" /\ pc'[t] # pc[t] /\ request[t].session_id = sid)
         => /\ sid \in DOMAIN execution_sessions'
            /\ execution_sessions'[sid] = execution_sessions[sid]]_vars

\* ---------------------------------------------------------------------------
\* C35.  A lookup finds the result cached for a predicted transaction.

\* the lookup that follows a predict_and_pre_execute, for a transaction of the
\* sender its i-th prediction names, while that prediction's result is in the
\* cache and within the validity window
LookupOfPrediction(i) ==
  /\ predOut.call = "predict_and_pre_execute"
  /\ i \in DOMAIN predOut.predictions
  /\ FromPathId(OptimizeExecutionPaths(predOut.predictions)[i].path_id)
       \in DOMAIN pre_results
  /\ predOut'.call = "try_use_pre_execution"
  /\ predOut'.key[1] = predOut.predictions[i].predicted_from
  /\ predOut'.at - predOut.at <= PredictionWindowMs \div 1000

ExecuteOutcome(m, input) ==
  LET r == CHOOSE out \in {CompleteExecute(m, input)} : TRUE
  IN [kind |-> r.kind, err |-> r.err,
      result |-> IF r.kind = "Ok" THEN ExtractResult(r.vm) ELSE NoVmResult]

\* the last call restored the last snapshot into an instance fresh from new()
RestoredIntoFresh == RestoredOwn /\ vmOut.before = NewVm

\* C36: after a snapshot is restored into another, freshly created instance,
\* execute returns on it what it returns on the instance the snapshot was
\* taken of, and the instance does not report code_loaded while it holds no
\* code.
C36_RestoredInstanceRuns ==
  RestoredIntoFresh =>
    /\ complete_vm.code_loaded => complete_vm.code_cache # << >>
    /\ \A input \in Inputs :
         ExecuteOutcome(complete_vm, input) = ExecuteOutcome(snapVm, input)

\* ---------------------------------------------------------------------------
\* C37.  Executing the loaded program again gives the same result.

\* C37: an execute that follows a returned execute of the same instance, with
\* the same input, the same limits and the same loaded program, returns the
\* same ExecutionResult: cycles_used and gas_used count the instructions of
\* that call only.
C37_ExecuteRepeatable ==
  [][(/\ ExecuteReturned
      /\ vmOut'.call = "execute"
      /\ vmOut'.input = vmOut.input)
       => /\ vmOut'.kind = "Ok"
          /\ vmOut'.result = vmOut.result]_vars

\* ---------------------------------------------------------------------------
\* C38.  The edge list names each conflicting pair once.

\* the pairs i < j of the batch that conflict
DistinctConflictingPairs ==
  {p \in TxIndices \X TxIndices :
     p[1] < p[2] /\ Conflicts(Tx(p[1]), Tx(p[2]))}

\* C38: the edge list of the conflict graph has no self-loop (i, i) and
\* lists no pair of transactions twice, so conflicts_detected is the number
\* of distinct conflicting pairs of the batch.
C38_EachPairOnce ==
  schedPc = "done" =>
    LET edges == conflict_graph.edges
    IN /\ \A k \in DOMAIN edges : edges[k][1] # edges[k][2]
       /\ \A k, l \in DOMAIN edges :
            k # l => {edges[k][1], edges[k][2]} # {edges[l][1], edges[l][2]}
       /\ batch_result.execution_stats.conflicts_detected
            = Cardinality(DistinctConflictingPairs)

\* ---------------------------------------------------------------------
\* ParallelScheduler with enable_adaptive_scheduling: new() builds the
\* strategy asked for and a fresh AdaptiveScheduler next to it.
notSchedAdaptiveVars ==
  <<mgrVars, vmVars, cacheVars, predictVars, validatorVars, pluginVars,
    zeroCopyVars, counterVars, lockVars>>

\* ParallelScheduler::submit_batch with an adaptive scheduler:
\* select_optimal_strategy (a panic of it ends the call), analyze, the plan
\* of self.strategy, execute_parallel, the statistics, then
\* record_performance of the selected strategy
SubmitBatchAdaptive(txs, build) ==
  /\ schedPc \in {"ready", "done"}
  /\ LET features == ExtractFeatures(txs, build)
         predictions == PredictAllStrategies(models, model_accuracy, features)
         selected_strategy == SelectBest(predictions)
         graph == Analyze(txs)
         plan == PlanExecution(strategy, txs, graph)
         results == ExecuteParallel(plan)
     IN IF features.kind = "Panic"
        THEN /\ adaptiveOut' = [NoAdaptiveOut EXCEPT
                                  !.call = "select_optimal_strategy",
                                  !.kind = "Panic", !.transactions = txs]
             /\ UNCHANGED <<current_strategy, models, training_data,
                            model_accuracy>>
             /\ UNCHANGED <<schedPc, transactions, conflict_graph,
                            execution_plan, batch_result>>
        ELSE /\ current_strategy' = selected_strategy
             /\ transactions' = txs
             /\ conflict_graph' = graph
             /\ execution_plan' = plan
             /\ batch_result' =
                  [transaction_results |-> results,
                   execution_stats |->
                     [total_transactions |-> Len(txs),
                      successful_transactions |-> CountSuccess(results, TRUE),
                      failed_transactions |-> CountSuccess(results, FALSE),
                      parallel_efficiency |-> CalculateParallelEfficiency(results),
                      conflicts_detected |-> Len(graph.edges)]]
             /\ schedPc' = "done"
             /\ training_data' =
                  [training_data EXCEPT ![selected_strategy] =
                     IF @ < MinTrainingSamples THEN @ + 1 ELSE @]
             /\ models' = MapInsert(models, selected_strategy,
                                    DefaultForStrategy(selected_strategy))
             /\ model_accuracy' =
                  IF training_data'[selected_strategy] < MinTrainingSamples
                  THEN model_accuracy
                  ELSE model_accuracy \cup {selected_strategy}
             /\ adaptiveOut' = [NoAdaptiveOut EXCEPT
                                  !.call = "record_performance",
                                  !.kind = "Ok", !.transactions = txs,
                                  !.features = features,
                                  !.predictions = predictions,
                                  !.strategy = selected_strategy]
  /\ UNCHANGED strategy
  /\ UNCHANGED notSchedAdaptiveVars

NextSchedAdaptive ==
  \/ SchedulerNew
  \/ \E txs \in FeatureBatches, build \in Builds :
       SubmitBatchAdaptive(txs, build)

SpecSchedAdaptive == Init /\ [][NextSchedAdaptive]_vars

\* ---------------------------------------------------------------------------
\* C39.  The selected strategy plans the batch and gets the sample.

\* the last submit_batch of the adaptive scheduler returned
AdaptiveBatchReturned ==
  /\ schedPc = "done"
  /\ adaptiveOut.call = "record_performance"
  /\ adaptiveOut.kind = "Ok"

\* C39: with adaptive scheduling, the plan of a batch is the plan of the
\* strategy select_optimal_strategy returned for it, and the performance
\* sample recorded for the batch names the strategy that planned it.
C39_SelectedStrategyPlans ==
  AdaptiveBatchReturned =>
    /\ execution_plan =
         PlanExecution(current_strategy, transactions, conflict_graph)
    /\ adaptiveOut.strategy = strategy

\* ---------------------------------------------------------------------------
\* C40.  A deleted key is not found.

\* C40: a get(key) that follows a clear(), or a remove(key) of the same key,
\* with no put in between, returns None: the deletion has emptied both tiers.
C40_DeletedKeyNotFound ==
  [][(/\ cacheOut'.call = "get"
      /\ \/ cacheOut.call = "clear"
         \/ cacheOut.call = "remove" /\ cacheOut.key = cacheOut'.key)
       => cacheOut'.kind = "None"]_vars

====
